---- MODULE Spec2Model ----
(***************************************************************************)
(* LUSID Scene v0.5: the JSON loader (parser.py), the scene data model     *)
(* (scene.py), the transcoder (transcoder.py), the ADM scene builder       *)
(* (xmlParser.py) and the single-step XML pipeline (xml_etree_parser.py)   *)
(* as a state machine.                                                     *)
(*                                                                         *)
(* JSON values are tagged records ([k |-> kind, ...]).  A finite number is *)
(* the rational n/d; NaN, +/-Infinity and an integer too large for a float *)
(* ("huge") are kinds of their own, because the code treats each           *)
(* differently.  Node ids are sequences of characters, so that split(".")  *)
(* and int() are computed as Python computes them.                         *)
(***************************************************************************)
EXTENDS Integers, Sequences, FiniteSets, TLC

(***************************************************************************)
(* Bounds of the model.                                                    *)
(***************************************************************************)
MaxNodes == 3
MaxFrames == 3
MaxTime == 2
MaxRate == 3
MaxSpeakers == 4
MaxObjects == 2
MaxCalls == 2

(***************************************************************************)
(* JSON values.                                                            *)
(***************************************************************************)
Missing == [k |-> "missing"]
Null == [k |-> "null"]
Frac(a, b) == [k |-> "num", n |-> a, d |-> b]
Num(a) == Frac(a, 1)
NaN == [k |-> "nan"]
PosInf == [k |-> "inf", sign |-> 1]
NegInf == [k |-> "inf", sign |-> -1]
Huge == [k |-> "huge"]
Str(s) == [k |-> "str", s |-> s]
Text(cs) == [k |-> "text", c |-> cs]
List(xs) == [k |-> "list", items |-> xs]
Dict(ks) == [k |-> "dict", keys |-> ks]
Bool(b) == [k |-> "bool", b |-> b]

\* dict.get(key): an absent key and a JSON null both read as None
IsNone(v) == v.k \in {"missing", "null"}

\* isinstance(v, (int, float))
IsNumber(v) == v.k \in {"num", "nan", "inf", "huge"}

\* where a number that is not finite stands among the finite ones
FloatRank(v) == IF v.k = "inf" THEN 2 * v.sign ELSE IF v.k = "huge" THEN 1 ELSE 0

\* a < b, a <= b and a = b (denominators are positive); every comparison
\* with nan is false
NumLess(a, b) ==
    IF a.k = "nan" \/ b.k = "nan" THEN FALSE
    ELSE IF a.k # "num" \/ b.k # "num" THEN FloatRank(a) < FloatRank(b)
    ELSE IF a.d = b.d THEN a.n < b.n ELSE a.n * b.d < b.n * a.d
NumLeq(a, b) ==
    IF a.k = "nan" \/ b.k = "nan" THEN FALSE
    ELSE IF a.k # "num" \/ b.k # "num" THEN FloatRank(a) <= FloatRank(b)
    ELSE IF a.d = b.d THEN a.n <= b.n ELSE a.n * b.d <= b.n * a.d
NumEq(a, b) ==
    IF a.k = "nan" \/ b.k = "nan" THEN FALSE
    ELSE IF a.k # "num" \/ b.k # "num" THEN FloatRank(a) = FloatRank(b)
    ELSE IF a.d = b.d THEN a.n = b.n ELSE a.n * b.d = b.n * a.d

(***************************************************************************)
(* parser.py: helpers                                                      *)
(***************************************************************************)
\* math.isfinite raises OverflowError on an int that no float can hold
is_finite(v) ==
    IF ~IsNumber(v) THEN "False"
    ELSE IF v.k = "num" THEN "True"
    ELSE IF v.k = "huge" THEN "OverflowError"
    ELSE "False"

Digits == {"0", "1", "2", "3", "4", "5", "6", "7", "8", "9"}

DigitVal(c) ==
    CASE c = "0" -> 0 [] c = "1" -> 1 [] c = "2" -> 2 [] c = "3" -> 3
      [] c = "4" -> 4 [] c = "5" -> 5 [] c = "6" -> 6 [] c = "7" -> 7
      [] c = "8" -> 8 [] c = "9" -> 9

\* the characters str.strip() removes
Whitespace == {" ", "\t", "\n"}

RECURSIVE LStrip(_)
LStrip(cs) == IF cs # <<>> /\ Head(cs) \in Whitespace THEN LStrip(Tail(cs)) ELSE cs

RECURSIVE RStrip(_)
RStrip(cs) ==
    IF cs # <<>> /\ cs[Len(cs)] \in Whitespace
    THEN RStrip(SubSeq(cs, 1, Len(cs) - 1)) ELSE cs

\* str.strip()
Strip(cs) == RStrip(LStrip(cs))

\* the literal without its surrounding blanks and its sign
Unsigned(cs) ==
    LET s == Strip(cs)
    IN IF s # <<>> /\ Head(s) \in {"+", "-"} THEN Tail(s) ELSE s

\* int(s) succeeds: blanks, an optional sign, digits with single underscores between
IsIntLiteral(cs) ==
    LET b == Unsigned(cs)
    IN /\ b # <<>>
       /\ \A i \in 1..Len(b) : b[i] \in Digits \cup {"_"}
       /\ b[1] \in Digits
       /\ b[Len(b)] \in Digits
       /\ \A i \in 1..(Len(b) - 1) : ~(b[i] = "_" /\ b[i + 1] = "_")

RECURSIVE DigitsValue(_, _)
DigitsValue(b, acc) ==
    IF b = <<>> THEN acc
    ELSE IF Head(b) = "_" THEN DigitsValue(Tail(b), acc)
    ELSE DigitsValue(Tail(b), 10 * acc + DigitVal(Head(b)))

\* int(s) for a literal that int() accepts
IntValue(cs) ==
    LET s == Strip(cs)
        v == DigitsValue(Unsigned(cs), 0)
    IN IF s # <<>> /\ Head(s) = "-" THEN -v ELSE v

\* str.split(sep)
RECURSIVE SplitFrom(_, _, _)
SplitFrom(cs, sep, cur) ==
    IF cs = <<>> THEN <<cur>>
    ELSE IF Head(cs) = sep THEN <<cur>> \o SplitFrom(Tail(cs), sep, <<>>)
    ELSE SplitFrom(Tail(cs), sep, Append(cur, Head(cs)))

Split(cs, sep) == SplitFrom(cs, sep, <<>>)

is_valid_node_id(cs) ==
    LET parts == Split(cs, ".")
    IN Len(parts) = 2 /\ IsIntLiteral(parts[1]) /\ IsIntLiteral(parts[2])

\* str(int) for a non-negative int
RECURSIVE NatDigits(_)
NatDigits(m) ==
    LET c == CHOOSE x \in Digits : DigitVal(x) = m % 10
    IN IF m < 10 THEN <<c>> ELSE Append(NatDigits(m \div 10), c)

\* str(node_id): a string is itself, an int its decimal digits; the text of
\* any other value has no "X.Y" shape
PyStr(v) ==
    IF v.k = "text" THEN v.c
    ELSE IF v.k = "num" /\ v.d = 1
         THEN IF v.n < 0 THEN <<"-">> \o NatDigits(-v.n) ELSE NatDigits(v.n)
    ELSE <<"?">>

(***************************************************************************)
(* scene.py: the data model                                                *)
(***************************************************************************)
\* the fields of a raw node other than id and type (a node's opaque payload)
NoData ==
    [cart |-> Missing, gain |-> Missing, speakerLabel |-> Missing,
     channelID |-> Missing, centroid |-> Missing, time |-> Missing]

NoNode == [type |-> "none"]

AudioObjectNode(id, cart, gain) ==
    [type |-> "audio_object", id |-> id, cart |-> cart, gain |-> gain,
     speakerLabel |-> "", channelID |-> "", data |-> NoData]

DirectSpeakerNode(id, cart, label, chan) ==
    [type |-> "direct_speaker", id |-> id, cart |-> cart, gain |-> Num(1),
     speakerLabel |-> label, channelID |-> chan, data |-> NoData]

LFENode(id) ==
    [type |-> "LFE", id |-> id, cart |-> <<>>, gain |-> Num(1),
     speakerLabel |-> "", channelID |-> "", data |-> NoData]

SpectralFeaturesNode(id, data) ==
    [type |-> "spectral_features", id |-> id, cart |-> <<>>, gain |-> Num(1),
     speakerLabel |-> "", channelID |-> "", data |-> data]

AgentStateNode(id, data) ==
    [type |-> "agent_state", id |-> id, cart |-> <<>>, gain |-> Num(1),
     speakerLabel |-> "", channelID |-> "", data |-> data]

\* Node.group: int(self.id.split(".")[0])
group(node) == IntValue(Split(node.id, ".")[1])

\* Node.hierarchy: int(self.id.split(".")[1])
hierarchy(node) == IntValue(Split(node.id, ".")[2])

Frame(t, nodes) == [time |-> t, nodes |-> nodes]

NoFrame == [time |-> Null, nodes |-> <<>>]

LusidScene(version, frames, time_unit, sample_rate, metadata) ==
    [k |-> "scene", version |-> version, frames |-> frames, time_unit |-> time_unit,
     sample_rate |-> sample_rate, metadata |-> metadata]

NoScene == [k |-> "none"]

\* LusidScene(...) called with keywords: the dataclass has the fields version,
\* frames, time_unit, sample_rate and metadata, and its generated __init__
\* raises TypeError on any other keyword; duration is Missing when the call
\* does not pass it
NewLusidScene(version, frames, time_unit, sample_rate, metadata, duration) ==
    IF duration # Missing THEN [val |-> NoScene, diags |-> <<>>, exc |-> "TypeError"]
    ELSE [val |-> LusidScene(version, frames, time_unit, sample_rate, metadata),
          diags |-> <<>>, exc |-> ""]

\* LusidScene.duration: the last frame's time, 0.0 without frames
duration(scene) ==
    IF scene.frames = <<>> THEN Num(0) ELSE scene.frames[Len(scene.frames)].time

\* Frame.get_nodes_by_type
get_nodes_by_type(frame, node_type) ==
    SelectSeq(frame.nodes, LAMBDA n : n.type = node_type)

\* the groups of the nodes of one type, over all frames
GroupsOfType(scene, node_type) ==
    UNION {{group(get_nodes_by_type(scene.frames[j], node_type)[i]) :
               i \in 1..Len(get_nodes_by_type(scene.frames[j], node_type))} :
           j \in 1..Len(scene.frames)}

\* LusidScene.frame_count
frame_count(scene) == Len(scene.frames)

\* LusidScene.audio_object_groups (a sorted list of unique groups: a set)
audio_object_groups(scene) == GroupsOfType(scene, "audio_object")

\* LusidScene.direct_speaker_groups
direct_speaker_groups(scene) == GroupsOfType(scene, "direct_speaker")

\* LusidScene.has_lfe
has_lfe(scene) ==
    \E j \in 1..Len(scene.frames) : get_nodes_by_type(scene.frames[j], "LFE") # <<>>

(***************************************************************************)
(* parser.py: node parsing.  A parse result carries the value, the         *)
(* diagnostics issued (warnings.warn) in order, and the exception that     *)
(* escaped, "" when none did.                                              *)
(***************************************************************************)
Result(v, ds, e) == [val |-> v, diags |-> ds, exc |-> e]

\* all(_is_finite(v) for v in (x, y, z)): stops at the first that is not
AllFinite3(x, y, z) ==
    IF is_finite(x) # "True" THEN is_finite(x)
    ELSE IF is_finite(y) # "True" THEN is_finite(y)
    ELSE is_finite(z)

\* raw.get("gain", 1.0)
GainOf(raw) == IF raw.gain.k = "missing" THEN Num(1) ELSE raw.gain

\* _parse_audio_object from the cart check on: fin is the outcome of the
\* finiteness test of x, y, z and gfin that of the gain
AudioObjectFrom(node_id, cart, fin, gain, gfin) ==
    IF fin = "OverflowError" THEN Result(NoNode, <<>>, "OverflowError")
    ELSE IF fin = "False"
         THEN Result(NoNode, <<"audio_object has NaN/Inf in cart">>, "")
    ELSE IF gfin = "OverflowError" THEN Result(NoNode, <<>>, "OverflowError")
    ELSE IF gfin = "False"
         THEN Result(AudioObjectNode(node_id, <<cart[1], cart[2], cart[3]>>, Num(1)),
                     <<"audio_object has invalid gain">>, "")
    ELSE Result(AudioObjectNode(node_id, <<cart[1], cart[2], cart[3]>>, gain), <<>>, "")

\* the cart is a list long enough to read x, y, z from
CartHasXYZ(cart) == cart.k = "list" /\ Len(cart.items) >= 3

parse_audio_object(node_id, raw) ==
    IF IsNone(raw.cart) THEN Result(NoNode, <<"audio_object missing cart">>, "")
    ELSE IF ~CartHasXYZ(raw.cart)
         THEN Result(NoNode, <<"audio_object cart must be [x, y, z]">>, "")
    ELSE AudioObjectFrom(node_id, raw.cart.items,
                         AllFinite3(raw.cart.items[1], raw.cart.items[2], raw.cart.items[3]),
                         GainOf(raw), is_finite(GainOf(raw)))

\* {k: v for k, v in raw.items() if k not in ("id", "type")}
PayloadOf(raw) ==
    [cart |-> raw.cart, gain |-> raw.gain, speakerLabel |-> raw.speakerLabel,
     channelID |-> raw.channelID, centroid |-> raw.centroid, time |-> raw.time]

parse_spectral_features(node_id, raw) == SpectralFeaturesNode(node_id, PayloadOf(raw))

parse_agent_state(node_id, raw) == AgentStateNode(node_id, PayloadOf(raw))

IsType(v, name) == v.k = "str" /\ v.s = name

\* the dispatch by type of _parse_node
DispatchNode(node_id, raw) ==
    IF IsType(raw.type, "audio_object") THEN parse_audio_object(node_id, raw)
    ELSE IF IsType(raw.type, "LFE") THEN Result(LFENode(node_id), <<>>, "")
    ELSE IF IsType(raw.type, "spectral_features")
         THEN Result(parse_spectral_features(node_id, raw), <<>>, "")
    ELSE IF IsType(raw.type, "agent_state")
         THEN Result(parse_agent_state(node_id, raw), <<>>, "")
    ELSE Result(NoNode, <<"node has unknown type">>, "")

\* _parse_node once node_id = str(raw["id"]) is known
NodeFrom(node_id, raw) ==
    IF ~is_valid_node_id(node_id)
    THEN Result(NoNode, <<"node id does not match X.Y">>, "")
    ELSE IF IsNone(raw.type) THEN Result(NoNode, <<"node missing type">>, "")
    ELSE DispatchNode(node_id, raw)

parse_node(raw) ==
    IF IsNone(raw.id) THEN Result(NoNode, <<"node missing id">>, "")
    ELSE NodeFrom(PyStr(raw.id), raw)

(***************************************************************************)
(* parser.py: frame parsing                                                *)
(***************************************************************************)
\* a loader that leaves the earlier node of a duplicated id in place
DropId_keep(nodes, id) == nodes

\* nodes = [n for n in nodes if n.id != node.id]
DropId(nodes, id) == SelectSeq(nodes, LAMBDA n : n.id # id)

\* the body of the loop over raw_nodes of _parse_frame, for the entry rn whose
\* parse is r, and the loop itself
RECURSIVE NodeLoop(_, _, _, _)
NodeStep(rn, r, rest, seen_ids, nodes, diags) ==
    IF rn.k # "dict"
    THEN NodeLoop(rest, seen_ids, nodes, Append(diags, "non-dict node entry"))
    ELSE IF r.exc # "" THEN Result(nodes, diags \o r.diags, r.exc)
    ELSE IF r.val.type = "none" THEN NodeLoop(rest, seen_ids, nodes, diags \o r.diags)
    ELSE IF r.val.id \in seen_ids
         THEN NodeLoop(rest, seen_ids \cup {r.val.id},
                       Append(DropId(nodes, r.val.id), r.val),
                       (diags \o r.diags) \o <<"duplicate node id, keeping last">>)
    ELSE NodeLoop(rest, seen_ids \cup {r.val.id}, Append(nodes, r.val), diags \o r.diags)

NodeLoop(raw_nodes, seen_ids, nodes, diags) ==
    IF raw_nodes = <<>> THEN Result(nodes, diags, "")
    ELSE NodeStep(Head(raw_nodes), parse_node(Head(raw_nodes)), Tail(raw_nodes),
                  seen_ids, nodes, diags)

\* raw.get("nodes"), a missing or non-list value treated as empty with a diagnostic
NodesDiags(raw) ==
    IF IsNone(raw.nodes) THEN <<"frame missing nodes, treating as empty">>
    ELSE IF raw.nodes.k # "list" THEN <<"frame nodes is not a list, treating as empty">>
    ELSE <<>>

NodesOf(raw) == IF raw.nodes.k = "list" THEN raw.nodes.items ELSE <<>>

\* _parse_frame, fin being the finiteness test of the time and r the parsed nodes
FrameFrom(time_val, fin, r) ==
    IF fin = "OverflowError" THEN Result(NoFrame, <<>>, "OverflowError")
    ELSE IF fin = "False" THEN Result(NoFrame, <<"frame has invalid time, skipping">>, "")
    ELSE Result(Frame(time_val, r.val), r.diags, r.exc)

parse_frame(raw, index) ==
    IF IsNone(raw.time) THEN Result(NoFrame, <<"frame missing time, skipping">>, "")
    ELSE FrameFrom(raw.time, is_finite(raw.time),
                   NodeLoop(NodesOf(raw), {}, <<>>, NodesDiags(raw)))

(***************************************************************************)
(* scene.py: time units                                                    *)
(***************************************************************************)
Chars_seconds == <<"s", "e", "c", "o", "n", "d", "s">>
Chars_s == <<"s">>
Chars_samples == <<"s", "a", "m", "p", "l", "e", "s">>
Chars_samp == <<"s", "a", "m", "p">>
Chars_milliseconds == <<"m", "i", "l", "l", "i", "s", "e", "c", "o", "n", "d", "s">>
Chars_ms == <<"m", "s">>

TIMEUNIT_ALIASES ==
    {<<Chars_seconds, "seconds">>, <<Chars_s, "seconds">>,
     <<Chars_samples, "samples">>, <<Chars_samp, "samples">>,
     <<Chars_milliseconds, "milliseconds">>, <<Chars_ms, "milliseconds">>}

\* the characters of a canonical unit name
UnitChars(u) ==
    CASE u = "seconds" -> Chars_seconds
      [] u = "samples" -> Chars_samples
      [] u = "milliseconds" -> Chars_milliseconds
      [] OTHER -> <<"?">>

\* str.lower() on one character
LowerChar(c) ==
    CASE c = "S" -> "s" [] c = "M" -> "m" [] c = "E" -> "e" [] c = "C" -> "c"
      [] c = "O" -> "o" [] c = "N" -> "n" [] c = "D" -> "d" [] c = "A" -> "a"
      [] c = "P" -> "p" [] c = "L" -> "l" [] c = "I" -> "i" [] c = "T" -> "t"
      [] c = "F" -> "f" [] c = "R" -> "r" [] c = "Y" -> "y"
      [] c = "K" -> "k" [] OTHER -> c

Lower(cs) == [i \in 1..Len(cs) |-> LowerChar(cs[i])]

\* a lookup of the text as it is written
normalize_time_unit_exact(cs) ==
    LET hits == {a \in TIMEUNIT_ALIASES : a[1] = cs}
    IN IF hits = {} THEN "ValueError" ELSE (CHOOSE a \in hits : TRUE)[2]

\* normalize_time_unit: the canonical unit, or "ValueError"
normalize_time_unit(cs) ==
    LET key == Strip(Lower(cs))
        hits == {a \in TIMEUNIT_ALIASES : a[1] = key}
    IN IF hits = {} THEN "ValueError" ELSE (CHOOSE a \in hits : TRUE)[2]

\* a conversion that rejects an absent or zero sample rate, not a negative one
time_to_seconds_negative_rate(value, time_unit, sample_rate) ==
    IF time_unit = "seconds" THEN Result(value, <<>>, "")
    ELSE IF time_unit = "milliseconds"
         THEN Result(Frac(value.n, value.d * 1000), <<>>, "")
    ELSE IF time_unit = "samples"
         THEN IF sample_rate.k = "null" \/ (sample_rate.k = "num" /\ sample_rate.n = 0)
              THEN Result(Null, <<>>, "ValueError")
              ELSE IF sample_rate.k = "huge" THEN Result(Null, <<>>, "OverflowError")
              ELSE Result(Frac(value.n * sample_rate.d, value.d * sample_rate.n),
                          <<>>, "")
    ELSE Result(Null, <<>>, "ValueError")

\* time_to_seconds: only ValueError is a conversion error; float(sample_rate)
\* raises OverflowError on an int that no float can hold
time_to_seconds(value, time_unit, sample_rate) ==
    IF time_unit = "seconds" THEN Result(value, <<>>, "")
    ELSE IF time_unit = "milliseconds"
         THEN Result(Frac(value.n, value.d * 1000), <<>>, "")
    ELSE IF time_unit = "samples"
         THEN IF sample_rate.k = "null" \/ (sample_rate.k = "num" /\ sample_rate.n <= 0)
              THEN Result(Null, <<>>, "ValueError")
              ELSE IF sample_rate.k = "huge" THEN Result(Null, <<>>, "OverflowError")
              ELSE Result(Frac(value.n * sample_rate.d, value.d * sample_rate.n),
                          <<>>, "")
    ELSE Result(Null, <<>>, "ValueError")

\* LusidScene.duration_seconds
duration_seconds(scene) ==
    time_to_seconds(duration(scene), scene.time_unit, scene.sample_rate)

(***************************************************************************)
(* parser.py: scene-level parsing                                          *)
(***************************************************************************)
\* the loop over raw_frames of parse_dict
RECURSIVE FrameLoop(_, _, _, _)
FrameStep(rf, r, rest, i, frames, diags) ==
    IF rf.k # "dict"
    THEN FrameLoop(rest, i + 1, frames, Append(diags, "frame is not a dict, skipping"))
    ELSE IF r.exc # "" THEN Result(frames, diags \o r.diags, r.exc)
    ELSE IF r.val.time.k = "null" THEN FrameLoop(rest, i + 1, frames, diags \o r.diags)
    ELSE FrameLoop(rest, i + 1, Append(frames, r.val), diags \o r.diags)

FrameLoop(raw_frames, i, frames, diags) ==
    IF raw_frames = <<>> THEN Result(frames, diags, "")
    ELSE FrameStep(Head(raw_frames), parse_frame(Head(raw_frames), i), Tail(raw_frames),
                   i, frames, diags)

\* a sort step that puts f before the frames of equal time (not stable)
InsertByTime_unstable(sorted, f) ==
    LET before == {i \in 1..Len(sorted) : NumLess(sorted[i].time, f.time)}
        p == IF before = {} THEN 0 ELSE CHOOSE i \in before : \A j \in before : j <= i
    IN (Append(SubSeq(sorted, 1, p), f)) \o SubSeq(sorted, p + 1, Len(sorted))

\* one step of a stable sort, which compares with < only: f goes after the
\* last frame that its time is not less than
InsertByTime(sorted, f) ==
    LET before == {i \in 1..Len(sorted) : ~NumLess(f.time, sorted[i].time)}
        p == IF before = {} THEN 0 ELSE CHOOSE i \in before : \A j \in before : j <= i
    IN (Append(SubSeq(sorted, 1, p), f)) \o SubSeq(sorted, p + 1, Len(sorted))

RECURSIVE SortFrom(_, _)
SortFrom(frames, sorted) ==
    IF frames = <<>> THEN sorted
    ELSE SortFrom(Tail(frames), InsertByTime(sorted, Head(frames)))

\* frames.sort(key=lambda f: f.time)
SortByTime(frames) == SortFrom(frames, <<>>)

\* str(version)
VersionStr(v) ==
    IF v.k = "str" THEN v.s
    ELSE IF v.k = "num" /\ v.n = 1 /\ v.d = 2 THEN "0.5"
    ELSE "?"

\* the sampleRate branch of parse_dict: int(nan) raises ValueError, int(inf)
\* OverflowError; int() of a finite number truncates
ParseSampleRate(sr) ==
    IF IsNone(sr) THEN Result(Null, <<>>, "")
    ELSE IF ~IsNumber(sr) \/ (sr.k = "num" /\ sr.n <= 0) \/ (sr.k = "inf" /\ sr.sign < 0)
         THEN Result(Null, <<"invalid sampleRate, ignoring">>, "")
    ELSE IF sr.k = "nan" THEN Result(Null, <<>>, "ValueError")
    ELSE IF sr.k = "inf" THEN Result(Null, <<>>, "OverflowError")
    ELSE IF sr.k = "huge" THEN Result(Huge, <<>>, "")
    ELSE Result(Num(sr.n \div sr.d), <<>>, "")

\* the timeUnit branch of parse_dict, u being the normalized unit
TimeUnitFrom(u) ==
    IF u = "ValueError"
    THEN Result("seconds", <<"unknown timeUnit, defaulting to seconds">>, "")
    ELSE Result(u, <<>>, "")

\* raw.get("timeUnit", "seconds")
ParseTimeUnit(tu) ==
    TimeUnitFrom(normalize_time_unit(
        PyStr(IF tu.k = "missing" THEN Text(Chars_seconds) ELSE tu)))

\* the version branch of parse_dict
ParseVersion(v) ==
    IF IsNone(v) THEN Result("0.5", <<"missing version, assuming 0.5">>, "")
    ELSE IF VersionStr(v) # "0.5" THEN Result(VersionStr(v), <<"expected version 0.5">>, "")
    ELSE Result("0.5", <<>>, "")

\* the metadata branch of parse_dict
ParseMetadata(md) ==
    IF md.k = "dict" THEN Result(md, <<>>, "")
    ELSE IF md.k = "missing" THEN Result(Dict({}), <<>>, "")
    ELSE Result(Dict({}), <<"metadata is not a dict, ignoring">>, "")

\* raw.get("frames"), a missing or non-list value treated as empty with a diagnostic
FramesDiags(raw) ==
    IF IsNone(raw.frames) THEN <<"missing frames, scene will be empty">>
    ELSE IF raw.frames.k # "list" THEN <<"frames is not a list, scene will be empty">>
    ELSE <<>>

FramesOf(raw) == IF raw.frames.k = "list" THEN raw.frames.items ELSE <<>>

SamplesDiag(tu, sr) ==
    IF tu.val = "samples" /\ sr.val.k = "null"
    THEN <<"timeUnit is samples but no valid sampleRate">>
    ELSE <<>>

\* the diagnostics of the header fields, in the order parse_dict issues them
HeaderDiags(raw, v, tu, sr, md) ==
    (((v.diags \o tu.diags) \o sr.diags) \o SamplesDiag(tu, sr))
    \o (md.diags \o FramesDiags(raw))

\* parse_dict from the frames loop on: fr is the loop's result
SceneFrom(v, tu, sr, md, fr) ==
    IF fr.exc # "" THEN Result(NoScene, fr.diags, fr.exc)
    ELSE Result(LusidScene(v.val, SortByTime(fr.val), tu.val, sr.val, md.val),
                fr.diags, "")

\* parse_dict once the header fields are parsed
HeaderParsed(raw, v, tu, sr, md) ==
    IF sr.exc # "" THEN Result(NoScene, v.diags \o tu.diags, sr.exc)
    ELSE SceneFrom(v, tu, sr, md,
                   FrameLoop(FramesOf(raw), 0, <<>>, HeaderDiags(raw, v, tu, sr, md)))

parse_dict(raw) ==
    IF raw.k # "dict" THEN Result(NoScene, <<>>, "AttributeError")
    ELSE HeaderParsed(raw, ParseVersion(raw.version), ParseTimeUnit(raw.timeUnit),
                      ParseSampleRate(raw.sampleRate), ParseMetadata(raw.metadata))

\* parse_file: a file is absent, or holds text that is or is not JSON
parse_file(file) ==
    IF ~file.exists THEN Result(NoScene, <<>>, "FileNotFoundError")
    ELSE IF ~file.json THEN Result(NoScene, <<>>, "JSONDecodeError")
    ELSE parse_dict(file.content)

(***************************************************************************)
(* scene.py: serialization                                                 *)
(***************************************************************************)
RawNode(id, type, cart, gain, label, chan, centroid, time) ==
    [k |-> "dict", id |-> id, type |-> type, cart |-> cart, gain |-> gain,
     speakerLabel |-> label, channelID |-> chan, centroid |-> centroid, time |-> time]

RawFrame(time, nodes) == [k |-> "dict", time |-> time, nodes |-> nodes]

RawScene(version, timeUnit, sampleRate, metadata, frames) ==
    [k |-> "dict", version |-> version, timeUnit |-> timeUnit,
     sampleRate |-> sampleRate, metadata |-> metadata, frames |-> frames]

\* a to_dict that writes every field of the dataclass, default or not
node_to_dict_all_fields(n) ==
    RawNode(Text(n.id), Str(n.type), List(n.cart), n.gain, Str(n.speakerLabel),
            Str(n.channelID), Missing, Missing)

\* AudioObjectNode.to_dict, DirectSpeakerNode.to_dict, LFENode.to_dict,
\* SpectralFeaturesNode.to_dict, AgentStateNode.to_dict
node_to_dict(n) ==
    IF n.type = "audio_object"
    THEN RawNode(Text(n.id), Str(n.type), List(n.cart),
                 IF NumEq(n.gain, Num(1)) THEN Missing ELSE n.gain,
                 Missing, Missing, Missing, Missing)
    ELSE IF n.type = "direct_speaker"
    THEN RawNode(Text(n.id), Str(n.type), List(n.cart), Missing,
                 IF n.speakerLabel # "" THEN Str(n.speakerLabel) ELSE Missing,
                 IF n.channelID # "" THEN Str(n.channelID) ELSE Missing,
                 Missing, Missing)
    ELSE IF n.type = "LFE"
    THEN RawNode(Text(n.id), Str(n.type), Missing, Missing, Missing, Missing,
                 Missing, Missing)
    ELSE RawNode(Text(n.id), Str(n.type), n.data.cart, n.data.gain,
                 n.data.speakerLabel, n.data.channelID, n.data.centroid, n.data.time)

\* Frame.to_dict
frame_to_dict(f) ==
    RawFrame(f.time, List([i \in 1..Len(f.nodes) |-> node_to_dict(f.nodes[i])]))

\* LusidScene.to_dict
to_dict(scene) ==
    RawScene(Str(scene.version), Text(UnitChars(scene.time_unit)),
             IF scene.sample_rate.k # "null" THEN scene.sample_rate ELSE Missing,
             IF scene.metadata.keys # {} THEN scene.metadata ELSE Missing,
             List([i \in 1..Len(scene.frames) |-> frame_to_dict(scene.frames[i])]))

(***************************************************************************)
(* transcoder.py                                                           *)
(***************************************************************************)
Micro == 1000000

\* round(x, 6), in millionths: to the nearest, a tie to the even one; nan
\* and the infinities are their own roundings
Round6(x) ==
    LET N == x.n * Micro
        fl == N \div x.d
        rem == N % x.d
    IN IF x.k # "num" THEN x
       ELSE IF 2 * rem < x.d THEN Frac(fl, Micro)
       ELSE IF 2 * rem > x.d THEN Frac(fl + 1, Micro)
       ELSE IF fl % 2 = 0 THEN Frac(fl, Micro)
       ELSE Frac(fl + 1, Micro)

\* f"src_{group}" and "LFE": track names
SrcName(g) == [track |-> "src", group |-> g]
LfeName == [track |-> "LFE", group |-> 0]

\* a track that holds only its latest keyframe
AppendKeyframe_overwrite(sources, name, keyframe) ==
    IF name \in DOMAIN sources
    THEN [sources EXCEPT ![name] = <<keyframe>>]
    ELSE sources @@ (name :> <<keyframe>>)

\* sources.setdefault(src_name, []).append(keyframe)
AppendKeyframe(sources, name, keyframe) ==
    IF name \in DOMAIN sources
    THEN [sources EXCEPT ![name] = Append(@, keyframe)]
    ELSE sources @@ (name :> <<keyframe>>)

\* a loop over frame.nodes that gives a DirectSpeaker node a track of its own
RECURSIVE TranscodeNodes_speakers(_, _, _, _)
TranscodeNodes_speakers(nodes, time_sec, sources, lfe) ==
    IF nodes = <<>> THEN [sources |-> sources, has_lfe |-> lfe]
    ELSE IF Head(nodes).type \in {"audio_object", "direct_speaker"}
         THEN TranscodeNodes_speakers(
                  Tail(nodes), time_sec,
                  sources @@ ([track |-> "src", group |-> group(Head(nodes))]
                                 :> <<[time |-> time_sec, cart |-> Head(nodes).cart]>>),
                  lfe)
    ELSE TranscodeNodes_speakers(Tail(nodes), time_sec, sources,
                                 lfe \/ Head(nodes).type = "LFE")

\* the loop over frame.nodes: the keyframes of one frame, and whether an LFE was seen
RECURSIVE TranscodeNodes(_, _, _, _)
TranscodeNodes(nodes, time_sec, sources, lfe) ==
    IF nodes = <<>> THEN [sources |-> sources, has_lfe |-> lfe]
    ELSE LET node == Head(nodes)
             keyframe == [time |-> Round6(time_sec),
                          cart |-> [i \in 1..Len(node.cart) |-> Round6(node.cart[i])]]
         IN IF node.type = "audio_object"
            THEN TranscodeNodes(Tail(nodes), time_sec,
                                AppendKeyframe(sources, SrcName(group(node)), keyframe),
                                lfe)
            ELSE IF node.type = "LFE"
            THEN TranscodeNodes(Tail(nodes), time_sec, sources, TRUE)
            ELSE TranscodeNodes(Tail(nodes), time_sec, sources, lfe)

\* the loop over scene.frames: a ValueError of time_to_seconds skips the frame,
\* any other exception escapes
RECURSIVE TranscodeFrames(_, _, _, _, _)
TranscodeFrame(scn, i, t, r, sources, lfe, diags) ==
    IF t.exc = "ValueError"
    THEN TranscodeFrames(scn, i + 1, sources, lfe,
                         Append(diags, "cannot convert frame time, skipping frame"))
    ELSE IF t.exc # "" THEN Result([sources |-> sources, has_lfe |-> lfe], diags, t.exc)
    ELSE TranscodeFrames(scn, i + 1, r.sources, r.has_lfe, diags)

\* the nodes of frame i transcoded at time t.val
FrameKeyframes(scn, i, t, sources, lfe) ==
    TranscodeNodes(scn.frames[i].nodes, t.val, sources, lfe)

FrameSeconds(scn, i) ==
    time_to_seconds(scn.frames[i].time, scn.time_unit, scn.sample_rate)

TranscodeFrames(scn, i, sources, lfe, diags) ==
    IF i > Len(scn.frames)
    THEN Result([sources |-> sources, has_lfe |-> lfe], diags, "")
    ELSE TranscodeFrame(scn, i, FrameSeconds(scn, i),
                        FrameKeyframes(scn, i, FrameSeconds(scn, i), sources, lfe),
                        sources, lfe, diags)

NoSources == [x \in {} |-> <<>>]

\* sr = scene.sample_rate if scene.sample_rate else output_sample_rate
OutputRate(scn, output_sample_rate) ==
    IF scn.sample_rate.k = "null" \/ (scn.sample_rate.k = "num" /\ scn.sample_rate.n = 0)
    THEN Num(output_sample_rate)
    ELSE scn.sample_rate

\* a transcoder that never emits the LFE track
WithLfe_never(sources, lfe) == sources

\* if has_lfe: sources["LFE"] = [{"time": 0.0}]
WithLfe(sources, lfe) ==
    IF lfe
    THEN [n \in DOMAIN sources \cup {LfeName} |->
             IF n = LfeName THEN <<[time |-> Num(0)]>> ELSE sources[n]]
    ELSE sources

\* transcode_to_sonopleth from the frames loop on: r is the loop's result
RenderFrom(sr, r) ==
    IF r.exc # "" THEN Result(Null, r.diags, r.exc)
    ELSE Result([k |-> "render", sampleRate |-> sr, timeUnit |-> "seconds",
                 sources |-> WithLfe(r.val.sources, r.val.has_lfe)],
                r.diags, "")

\* a transcoder that takes each frame off the scene as it goes through them
SceneAfterTranscode_consumed(scn) == [scn EXCEPT !.frames = <<>>]

\* the scene as transcode_to_sonopleth leaves it: the function assigns to no
\* attribute of the scene, of a frame or of a node; list(node.cart) and the
\* list of the rounded values are new lists
SceneAfterTranscode(scn) == scn

transcode_to_sonopleth(scn, output_sample_rate) ==
    RenderFrom(OutputRate(scn, output_sample_rate),
               TranscodeFrames(scn, 1, NoSources, FALSE, <<>>))

\* output_sample_rate: int = 48000
DefaultOutputRate == 48000

\* entry = {"time": round(time_sec, 6)}; entry.update(node.data): the keys the
\* payload has replace the entry's, "time" among them
SidecarEntry(node, time_sec) ==
    [node.data EXCEPT !.time = IF node.data.time = Missing THEN Round6(time_sec)
                                ELSE node.data.time]

\* groups.setdefault(group_key, {}).setdefault(type_key, []).append(entry);
\* the key str(node.group) is written as the int it prints
AppendEntry(groups, g, ty, entry) ==
    IF g \notin DOMAIN groups THEN groups @@ (g :> (ty :> <<entry>>))
    ELSE IF ty \notin DOMAIN groups[g]
         THEN [groups EXCEPT ![g] = @ @@ (ty :> <<entry>>)]
    ELSE [groups EXCEPT ![g][ty] = Append(@, entry)]

\* the loop over frame.nodes of extract_metadata_sidecar
RECURSIVE SidecarNodes(_, _, _)
SidecarNodes(nodes, time_sec, groups) ==
    IF nodes = <<>> THEN groups
    ELSE IF Head(nodes).type \in {"spectral_features", "agent_state"}
         THEN SidecarNodes(Tail(nodes), time_sec,
                           AppendEntry(groups, group(Head(nodes)), Head(nodes).type,
                                       SidecarEntry(Head(nodes), time_sec)))
    ELSE SidecarNodes(Tail(nodes), time_sec, groups)

\* the loop over scene.frames of extract_metadata_sidecar: a ValueError of
\* time_to_seconds skips the frame silently, any other exception escapes
RECURSIVE SidecarFrames(_, _, _)
SidecarFrame(scn, i, t, groups) ==
    IF t.exc = "ValueError" THEN SidecarFrames(scn, i + 1, groups)
    ELSE IF t.exc # "" THEN Result(Null, <<>>, t.exc)
    ELSE SidecarFrames(scn, i + 1, SidecarNodes(scn.frames[i].nodes, t.val, groups))

SidecarFrames(scn, i, groups) ==
    IF i > Len(scn.frames)
    THEN Result([k |-> "sidecar", version |-> scn.version, timeUnit |-> "seconds",
                 groups |-> groups], <<>>, "")
    ELSE SidecarFrame(scn, i, FrameSeconds(scn, i), groups)

NoGroups == [x \in {} |-> <<>>]

\* the scene as extract_metadata_sidecar leaves it: entry is a new dict that
\* update() fills from node.data, and nothing is assigned to the scene
SceneAfterSidecar(scn) == scn

extract_metadata_sidecar(scn) == SidecarFrames(scn, 1, NoGroups)

(***************************************************************************)
(* xmlParser.py: the Scene Builder.  direct_speaker_data and object_data   *)
(* are dicts, read in insertion order: sequences of records with distinct  *)
(* names.  The module-level flag _DEV_LFE_HARDCODED is a parameter of the  *)
(* operators and a variable of the state.                                  *)
(***************************************************************************)
\* the literals of the floats that are no numbers, in lower case
Chars_nan == <<"n", "a", "n">>
Chars_inf == <<"i", "n", "f">>
Chars_infinity == <<"i", "n", "f", "i", "n", "i", "t", "y">>

\* float(s) succeeds: blanks, an optional sign, and then digits with at most
\* one point, or nan, inf or infinity in any case (exponents and underscores
\* are left out)
IsFloatLiteral(cs) ==
    LET b == Unsigned(cs)
        parts == Split(b, ".")
    IN \/ Lower(b) \in {Chars_nan, Chars_inf, Chars_infinity}
       \/ /\ Len(parts) \in {1, 2}
          /\ \A i \in 1..Len(b) : b[i] \in Digits \cup {"."}
          /\ \E i \in 1..Len(b) : b[i] \in Digits

RECURSIVE Pow10(_)
Pow10(n) == IF n = 0 THEN 1 ELSE 10 * Pow10(n - 1)

\* float(s) for such a literal
FloatValue(cs) ==
    LET s == Strip(cs)
        parts == Split(Unsigned(cs), ".")
        whole == DigitsValue(parts[1], 0)
        digits == IF Len(parts) = 2 THEN parts[2] ELSE <<>>
        v == Frac(whole * Pow10(Len(digits)) + DigitsValue(digits, 0), Pow10(Len(digits)))
    IN IF Lower(Unsigned(cs)) = Chars_nan THEN NaN
       ELSE IF Lower(Unsigned(cs)) \in {Chars_inf, Chars_infinity}
            THEN (IF s # <<>> /\ Head(s) = "-" THEN NegInf ELSE PosInf)
       ELSE IF s # <<>> /\ Head(s) = "-" THEN Frac(-v.n, v.d) ELSE v

\* int(hours) * 3600 + int(minutes) * 60 + float(seconds): the sum with nan
\* is nan, that with an infinity the infinity
TimecodeSeconds(parts) ==
    LET sec == FloatValue(parts[3])
    IN IF sec.k # "num" THEN sec
       ELSE Frac((IntValue(parts[1]) * 3600 + IntValue(parts[2]) * 60) * sec.d + sec.n,
                 sec.d)

\* _parse_timecode_to_seconds: ValueError (not three parts, a part that is
\* no number) and AttributeError (not a string) give 0.0 and a warning
parse_timecode_to_seconds(timecode) ==
    IF timecode.k # "text"
    THEN Result(Num(0), <<"cannot parse timecode, defaulting to 0.0">>, "")
    ELSE IF \/ Len(Split(timecode.c, ":")) # 3
            \/ ~IsIntLiteral(Split(timecode.c, ":")[1])
            \/ ~IsIntLiteral(Split(timecode.c, ":")[2])
            \/ ~IsFloatLiteral(Split(timecode.c, ":")[3])
         THEN Result(Num(0), <<"cannot parse timecode, defaulting to 0.0">>, "")
    ELSE Result(TimecodeSeconds(Split(timecode.c, ":")), <<>>, "")

\* _build_channel_audio_map: channel_index -> contains_audio, a later entry
\* replacing an earlier one; an entry without index is ignored, one without
\* the flag is silent
RECURSIVE AudioMapFrom(_, _)
AudioMapFrom(channels, audio_map) ==
    IF channels = <<>> THEN audio_map
    ELSE LET idx == Head(channels).channel_index
             has_audio == IF Head(channels).contains_audio = Missing THEN FALSE
                          ELSE Head(channels).contains_audio.b
         IN IF IsNone(idx) THEN AudioMapFrom(Tail(channels), audio_map)
            ELSE AudioMapFrom(Tail(channels),
                              [i \in DOMAIN audio_map \cup {idx.n} |->
                                  IF i = idx.n THEN has_audio ELSE audio_map[i]])

NoAudioMap == [x \in {} |-> TRUE]

\* contains_audio None is {}; contains_audio.get("channels", [])
build_channel_audio_map(contains_audio) ==
    IF IsNone(contains_audio) \/ contains_audio.channels = Missing THEN NoAudioMap
    ELSE AudioMapFrom(contains_audio.channels.items, NoAudioMap)

\* a lookup that takes every channel for active
HasAudio_always(audio_map, index) == TRUE

\* audio_map.get(index, True)
HasAudio(audio_map, index) ==
    IF index \in DOMAIN audio_map THEN audio_map[index] ELSE TRUE

\* sub in s
Contains(cs, sub) ==
    \E i \in 1..(Len(cs) - Len(sub) + 1) : SubSeq(cs, i, i + Len(sub) - 1) = sub

Chars_lfe == <<"l", "f", "e">>

\* speaker_data.get("speakerLabel", "")
LabelOf(speaker_data) ==
    IF speaker_data.speakerLabel = Missing THEN <<>> ELSE speaker_data.speakerLabel.c

\* an LFE rule that looks at the third channel
is_lfe_channel_third(speaker_name, speaker_data, channel_index_1based, hardcoded) ==
    IF hardcoded THEN channel_index_1based = 3
    ELSE Contains(Lower(LabelOf(speaker_data)), Chars_lfe)
            \/ Contains(Lower(speaker_name), Chars_lfe)

\* _is_lfe_channel, hardcoded being the value of _DEV_LFE_HARDCODED it reads
is_lfe_channel(speaker_name, speaker_data, channel_index_1based, hardcoded) ==
    IF hardcoded THEN channel_index_1based = 4
    ELSE Contains(Lower(LabelOf(speaker_data)), Chars_lfe)
            \/ Contains(Lower(speaker_name), Chars_lfe)

\* f"{group_id}.1"
GroupId(g) == NatDigits(g) \o <<".", "1">>

\* float(info.get("x", 0.0))
Coord(v) == IF v = Missing THEN Num(0) ELSE v

\* the node of an active direct speaker that is not the LFE
SpeakerNode(speaker_info, group_id) ==
    DirectSpeakerNode(GroupId(group_id),
                      <<Coord(speaker_info.x), Coord(speaker_info.y), Coord(speaker_info.z)>>,
                      LabelOf(speaker_info),
                      IF speaker_info.channelID = Missing THEN "" ELSE speaker_info.channelID.s)

\* the loop over direct_speaker_data: the static nodes, channel by channel
RECURSIVE SpeakerLoop(_, _, _, _, _)
SpeakerLoop(speakers, channel_1based, audio_map, hardcoded, static_nodes) ==
    IF channel_1based > Len(speakers) THEN static_nodes
    ELSE IF ~HasAudio(audio_map, channel_1based - 1)
         THEN SpeakerLoop(speakers, channel_1based + 1, audio_map, hardcoded, static_nodes)
    ELSE IF is_lfe_channel(speakers[channel_1based].name, speakers[channel_1based],
                           channel_1based, hardcoded)
         THEN SpeakerLoop(speakers, channel_1based + 1, audio_map, hardcoded,
                          Append(static_nodes, LFENode(GroupId(channel_1based))))
    ELSE SpeakerLoop(speakers, channel_1based + 1, audio_map, hardcoded,
                     Append(static_nodes,
                            SpeakerNode(speakers[channel_1based], channel_1based)))

\* time_to_nodes.setdefault(time_sec, []).append(node); the dict is the
\* sequence of its items in insertion order
AddNode(time_to_nodes, time_sec, node) ==
    IF \E i \in 1..Len(time_to_nodes) : NumEq(time_to_nodes[i].time, time_sec)
    THEN [i \in 1..Len(time_to_nodes) |->
             IF NumEq(time_to_nodes[i].time, time_sec)
             THEN Frame(time_to_nodes[i].time, Append(time_to_nodes[i].nodes, node))
             ELSE time_to_nodes[i]]
    ELSE Append(time_to_nodes, Frame(time_sec, <<node>>))

\* block.get("rtime", "00:00:00.00000")
RtimeOf(block) ==
    IF block.rtime = Missing
    THEN Text(<<"0", "0", ":", "0", "0", ":", "0", "0", ".", "0", "0", "0", "0", "0">>)
    ELSE block.rtime

\* the loop over the blocks of one object
RECURSIVE BlockLoop(_, _, _, _)
BlockStep(blocks, b, t, obj_group, acc) ==
    BlockLoop(blocks, b + 1, obj_group,
              [time_to_nodes |->
                  AddNode(acc.time_to_nodes, t.val,
                          AudioObjectNode(GroupId(obj_group),
                                          <<Coord(blocks[b].x), Coord(blocks[b].y),
                                            Coord(blocks[b].z)>>,
                                          Num(1))),
               diags |-> acc.diags \o t.diags])

BlockLoop(blocks, b, obj_group, acc) ==
    IF b > Len(blocks) THEN acc
    ELSE BlockStep(blocks, b, parse_timecode_to_seconds(RtimeOf(blocks[b])), obj_group, acc)

\* the loop over object_data: an object without blocks takes no group; a
\* silent one takes its group and emits nothing
\* (obj_channel_0based = num_direct_speakers + (obj_group - num_direct_speakers - 1))
RECURSIVE ObjectLoop(_, _, _, _, _)
ObjectLoop(objects, j, group_counter, audio_map, acc) ==
    IF j > Len(objects) THEN acc
    ELSE IF objects[j].blocks = <<>>
         THEN ObjectLoop(objects, j + 1, group_counter, audio_map, acc)
    ELSE IF ~HasAudio(audio_map, group_counter - 1)
         THEN ObjectLoop(objects, j + 1, group_counter + 1, audio_map, acc)
    ELSE ObjectLoop(objects, j + 1, group_counter + 1, audio_map,
                    BlockLoop(objects[j].blocks, 1, group_counter, acc))

\* for time_val in sorted(time_to_nodes.keys()): if nodes: frames.append(
\* Frame(time=round(time_val, 6), nodes=nodes)); sorted is the items by key
RECURSIVE BuilderFrames(_)
BuilderFrames(sorted) ==
    IF sorted = <<>> THEN <<>>
    ELSE (IF Head(sorted).nodes # <<>>
          THEN <<Frame(Round6(Head(sorted).time), Head(sorted).nodes)>>
          ELSE <<>>)
         \o BuilderFrames(Tail(sorted))

\* metadata: sourceFormat, and duration and format when global_data has them
BuilderMetadata(global_data) ==
    Dict({"sourceFormat"}
         \cup (IF global_data.Duration # Missing /\ global_data.Duration.c # <<>>
               THEN {"duration"} ELSE {})
         \cup (IF global_data.Format # Missing /\ global_data.Format.c # <<>>
               THEN {"format"} ELSE {}))

\* global_data None is {}
NoGlobalData ==
    [k |-> "dict", SampleRate |-> Missing, Duration |-> Missing, Format |-> Missing]

GlobalDataOf(global_data) == IF IsNone(global_data) THEN NoGlobalData ELSE global_data

\* int(global_data.get("SampleRate", 48000)): ValueError on text that is no int
BuilderSampleRate(global_data) ==
    IF global_data.SampleRate = Missing THEN Result(Num(48000), <<>>, "")
    ELSE IF IsIntLiteral(global_data.SampleRate.c)
         THEN Result(Num(IntValue(global_data.SampleRate.c)), <<>>, "")
    ELSE Result(Null, <<>>, "ValueError")

\* adm_to_lusid_scene from the object loop on: acc is the loop's result
BuilderSceneFrom(sample_rate, metadata, acc) ==
    Result(LusidScene("0.5", BuilderFrames(SortByTime(acc.time_to_nodes)), "seconds",
                      sample_rate, metadata),
           acc.diags, "")

\* a map that holds the static nodes at 1.0
StaticNodes_late(static_nodes) ==
    [time_to_nodes |-> <<Frame(Num(1), static_nodes)>>, diags |-> <<>>]

\* time_to_nodes = {}; time_to_nodes.setdefault(0.0, []).extend(static_nodes)
StaticNodes(static_nodes) ==
    [time_to_nodes |-> <<Frame(Num(0), static_nodes)>>, diags |-> <<>>]

\* adm_to_lusid_scene after the header: time_to_nodes starts with the static
\* nodes at 0.0, and the objects are numbered from num_direct_speakers + 1
BuilderBody(objects, speakers, sample_rate, metadata, audio_map, hardcoded) ==
    BuilderSceneFrom(
        sample_rate, metadata,
        ObjectLoop(objects, 1, Len(speakers) + 1, audio_map,
                   StaticNodes(SpeakerLoop(speakers, 1, audio_map, hardcoded, <<>>))))

BuilderFrom(objects, speakers, sr, metadata, audio_map, hardcoded) ==
    IF sr.exc # "" THEN Result(NoScene, <<>>, sr.exc)
    ELSE BuilderBody(objects, speakers, sr.val, metadata, audio_map, hardcoded)

\* adm_to_lusid_scene(object_data, direct_speaker_data, global_data,
\* contains_audio), hardcoded being the value of _DEV_LFE_HARDCODED during the call
adm_to_lusid_scene(object_data, direct_speaker_data, global_data, contains_audio, hardcoded) ==
    BuilderFrom(object_data, direct_speaker_data,
                BuilderSampleRate(GlobalDataOf(global_data)),
                BuilderMetadata(GlobalDataOf(global_data)),
                build_channel_audio_map(contains_audio), hardcoded)

(***************************************************************************)
(* xml_etree_parser.py: the single-step pipeline.  A well-formed document  *)
(* is what the extraction functions read from it: the <Technical> section  *)
(* (Missing when absent), and below the ebuCoreMain root (Missing when     *)
(* none is found) the direct speakers and the objects in document order.   *)
(* The loops over them are those of xmlParser.py, line for line.           *)
(***************************************************************************)
\* extract_global_data: {} and a warning without a <Technical> section
XmlGlobalData(xml) ==
    IF xml.technical = Missing
    THEN Result(NoGlobalData, <<"no <Technical> section found in XML">>, "")
    ELSE Result(xml.technical, <<>>, "")

\* duration_seconds = _parse_timecode_to_seconds(duration_str) if duration_str
XmlDuration(global_data) ==
    IF global_data.Duration = Missing \/ global_data.Duration.c = <<>>
    THEN Result(Null, <<>>, "")
    ELSE parse_timecode_to_seconds(global_data.Duration)

\* LusidScene(version="0.5", duration=duration_seconds, frames=frames, ...)
XmlSceneFrom(sample_rate, metadata, dur, acc, diags) ==
    [NewLusidScene("0.5", BuilderFrames(SortByTime(acc.time_to_nodes)), "seconds",
                   sample_rate, metadata, dur.val)
        EXCEPT !.diags = diags \o dur.diags \o acc.diags]

\* parse_adm_xml_to_lusid_scene once the root is found
XmlBody(root, sample_rate, global_data, audio_map, hardcoded, diags) ==
    XmlSceneFrom(
        sample_rate, BuilderMetadata(global_data), XmlDuration(global_data),
        ObjectLoop(root.objects, 1, Len(root.speakers) + 1, audio_map,
                   StaticNodes(SpeakerLoop(root.speakers, 1, audio_map, hardcoded, <<>>))),
        diags)

\* parse_adm_xml_to_lusid_scene from sample_rate on: without root an empty
\* scene and a warning
XmlFrom(xml, g, sr, audio_map, hardcoded) ==
    IF sr.exc # "" THEN Result(NoScene, g.diags, sr.exc)
    ELSE IF xml.root = Missing
         THEN [NewLusidScene("0.5", <<>>, "seconds", sr.val, Dict({}), Missing)
                  EXCEPT !.diags = Append(g.diags, "could not find ebuCoreMain element")]
    ELSE XmlBody(xml.root, sr.val, g.val, audio_map, hardcoded, g.diags)

\* parse_adm_xml_to_lusid_scene(xml_path, contains_audio) on a well-formed
\* file, hardcoded being the value of xml_etree_parser._DEV_LFE_HARDCODED
parse_adm_xml_to_lusid_scene(xml, contains_audio, hardcoded) ==
    XmlFrom(xml, XmlGlobalData(xml), BuilderSampleRate(XmlGlobalData(xml).val),
            build_channel_audio_map(contains_audio), hardcoded)

(***************************************************************************)
(* The inputs: JSON documents, files and directly constructed scenes.      *)
(***************************************************************************)
SeqsUpTo(S, n) == UNION {[1..m -> S] : m \in 0..n}

Id11 == <<"1", ".", "1">>
Id12 == <<"1", ".", "2">>
Id21 == <<"2", ".", "1">>
Id41 == <<"4", ".", "1">>

Cart0 == List(<<Num(0), Num(0), Num(0)>>)
Cart1 == List(<<Num(1), Num(0), Num(-1)>>)
CartNaN == List(<<Num(0), NaN, Num(0)>>)
CartShort == List(<<Num(0), Num(0)>>)
CartLong == List(<<Num(0), Num(0), Num(0), NaN>>)
CartHuge == List(<<Num(0), Huge, Num(0)>>)

RawAO(id, cart) ==
    RawNode(Text(id), Str("audio_object"), cart, Missing, Missing, Missing, Missing, Missing)
RawDS(id, cart) ==
    RawNode(Text(id), Str("direct_speaker"), cart, Missing, Str("RC_L"), Str("AC_00011001"),
            Missing, Missing)
RawLFE(id) ==
    RawNode(Text(id), Str("LFE"), Missing, Missing, Missing, Missing, Missing, Missing)
RawSF(id) ==
    RawNode(Text(id), Str("spectral_features"), Missing, Missing, Missing, Missing,
            Num(5000), Missing)
RawAS(id) ==
    RawNode(Text(id), Str("agent_state"), Missing, Missing, Missing, Missing,
            Missing, Num(7))

\* node entries, well-formed and malformed in each way the loader tells apart
NodePool ==
    {RawAO(Id11, Cart0), RawAO(Id11, Cart1), RawLFE(Id21), RawSF(Id12),
     RawDS(Id11, Cart0),
     RawAO(Id11, Missing), RawAO(Id21, CartNaN), RawAO(Id21, CartLong),
     RawNode(Text(Id11), Str("unknown_thing"), Cart0, Missing, Missing, Missing, Missing, Missing),
     RawNode(Missing, Str("audio_object"), Cart0, Missing, Missing, Missing, Missing, Missing),
     RawNode(Text(<<"b", "a", "d">>), Str("audio_object"), Cart0, Missing, Missing, Missing,
             Missing, Missing),
     Str("not a node")}

\* node entries met alone or beside one well-formed node
RareNodes ==
    {RawAO(Id11, CartHuge), RawAS(Id11), RawAO(Id11, CartShort),
     RawDS(Id21, CartNaN), RawDS(Id21, Missing),
     RawNode(Text(Id11), Missing, Cart0, Missing, Missing, Missing, Missing, Missing),
     RawNode(Text(Id11), Str("audio_object"), Cart0, NaN, Missing, Missing, Missing, Missing),
     RawNode(Text(Id11), Str("audio_object"), Cart0, Huge, Missing, Missing, Missing, Missing),
     RawNode(Text(Id11), Str("audio_object"), Cart0, Num(2), Missing, Missing, Missing, Missing),
     RawNode(Text(Id11), Str("audio_object"), Str("xyz"), Missing, Missing, Missing, Missing,
             Missing),
     RawNode(Text(Id11), Num(3), Cart0, Missing, Missing, Missing, Missing, Missing),
     RawNode(Num(11), Str("LFE"), Missing, Missing, Missing, Missing, Missing, Missing),
     RawLFE(<<" ", "1", ".", "1">>), RawLFE(<<"-", "1", ".", "+", "1">>),
     RawLFE(<<"1", "_", "0", ".", "1">>), RawLFE(<<"1", ".">>), RawLFE(<<"1">>),
     RawLFE(<<"1", ".", "1", ".", "1">>), RawLFE(<<"1", "_", "_", "0", ".", "1">>)}

NodeLists ==
    SeqsUpTo(NodePool, MaxNodes)
    \cup {<<e>> : e \in RareNodes}
    \cup {<<RawAO(Id11, Cart1), e>> : e \in RareNodes}

PlainScene(frames) == RawScene(Str("0.5"), Missing, Missing, Missing, frames)

\* documents with one frame, for the node rules
NodeDocs == {PlainScene(List(<<RawFrame(Num(0), List(ns))>>)) : ns \in NodeLists}

\* frame entries: kept ones (some with equal times and different nodes) and dropped ones
FramePool ==
    {RawFrame(Num(0), List(<<RawAO(Id11, Cart0)>>)),
     RawFrame(Num(0), List(<<RawAO(Id11, Cart1), RawLFE(Id41)>>)),
     RawFrame(Num(1), List(<<RawAO(Id11, Cart0), RawAO(Id12, Cart1)>>)),
     RawFrame(Num(1), List(<<RawAO(Id21, Cart0)>>)),
     RawFrame(Num(2), List(<<RawLFE(Id41), RawSF(Id12)>>)),
     RawFrame(NaN, List(<<RawAO(Id11, Cart0)>>)),
     Str("not a frame")}

RareFrames ==
    {RawFrame(Huge, List(<<>>)), RawFrame(Missing, List(<<RawAO(Id11, Cart0)>>)),
     RawFrame(Num(1), Missing), RawFrame(Num(1), Str("x")),
     RawFrame(Str("1"), List(<<>>)), RawFrame(PosInf, List(<<>>)),
     RawFrame(Frac(1, 2), List(<<RawAO(Id11, Cart0)>>))}

FrameLists ==
    SeqsUpTo(FramePool, MaxFrames)
    \cup {<<e>> : e \in RareFrames}
    \cup {<<RawFrame(Num(1), List(<<RawAO(Id21, Cart0)>>)), e>> : e \in RareFrames}

\* (timeUnit, sampleRate) headers: convertible times and times that are not
UnitHeaders ==
    {<<Missing, Missing>>, <<Text(Chars_ms), Missing>>, <<Text(Chars_samples), Missing>>,
     <<Text(Chars_samples), Num(MaxRate)>>, <<Text(Chars_samples), Huge>>,
     <<Text(Chars_samples), Frac(1, 2)>>}

\* documents with several frames, for the frame rules and the transcoder
FrameDocs ==
    {RawScene(Str("0.5"), h[1], h[2], Missing, List(fs)) :
        h \in UnitHeaders, fs \in FrameLists}

\* documents that vary the top-level fields, and top-level values that are no object
HeaderDocs ==
    {RawScene(v, tu, sr, md, fs) :
        v \in {Missing, Str("0.5"), Str("0.4"), Frac(1, 2)},
        tu \in {Missing, Null, Text(Chars_s), Text(<<" ", "M", "S", " ">>),
                Text(<<"\t", "s", "e", "c", "o", "n", "d", "s", "\n">>),
                Text(<<"S", "a", "m", "p">>), Text(<<"t", "i", "c", "k", "s">>), Num(1)},
        sr \in {Missing, Num(2), Num(0), Num(-1), Frac(1, 2), Frac(5, 2), NaN, PosInf,
                NegInf, Huge, Str("48000")},
        md \in {Missing, Null, Dict({"title"}), Str("notes")},
        fs \in {Missing, Str("frames"), List(<<>>),
                List(<<RawFrame(Num(1), List(<<RawAO(Id11, Cart0)>>))>>)}}
    \cup {List(<<>>), Str("scene"), Num(3), Null}

Docs == NodeDocs \cup FrameDocs \cup HeaderDocs

\* files: absent, not JSON, or holding a JSON value
Files ==
    {[exists |-> FALSE, json |-> FALSE, content |-> Null],
     [exists |-> TRUE, json |-> FALSE, content |-> Null]}
    \cup {[exists |-> TRUE, json |-> TRUE, content |-> d] :
             d \in {List(<<>>), Null, PlainScene(List(<<>>)),
                    PlainScene(List(<<RawFrame(Num(0), List(<<RawLFE(Id41)>>))>>))}}

\* nodes built with the dataclass constructors
BuiltNodePool ==
    {AudioObjectNode(Id11, <<Num(0), Num(0), Num(0)>>, Num(1)),
     AudioObjectNode(Id21, <<Num(1), Num(0), Num(-1)>>, Num(2)),
     DirectSpeakerNode(Id11, <<Num(1), Num(0), Num(0)>>, "RC_L", "AC_00011001"),
     DirectSpeakerNode(Id12, <<Num(0), Num(1), Num(0)>>, "", ""),
     LFENode(Id41),
     SpectralFeaturesNode(Id12, [NoData EXCEPT !.centroid = Num(5000)])}

DistinctIds(nodes) ==
    \A i, j \in 1..Len(nodes) : i # j => nodes[i].id # nodes[j].id

BuiltNodeLists == {ns \in SeqsUpTo(BuiltNodePool, MaxNodes) : DistinctIds(ns)}

\* valid scenes: frames in ascending time, node ids distinct within a frame
BuiltScenes ==
    {LusidScene("0.5", fs, "seconds", sr, Dict({})) :
        sr \in {Null, Num(48000)},
        fs \in {<<>>} \cup {<<Frame(Num(0), a)>> : a \in BuiltNodeLists}
               \cup {<<Frame(Num(0), a), Frame(Num(1), b)>> :
                        a \in BuiltNodeLists,
                        b \in {<<>>,
                               <<AudioObjectNode(Id21, <<Num(0), Num(1), Num(0)>>, Num(1))>>,
                               <<LFENode(Id41)>>}}}

(***************************************************************************)
(* The inputs of the Scene Builder: channel records in document order.     *)
(***************************************************************************)
Chars_Speaker(i) == <<"S", "p", "_">> \o NatDigits(i)

\* the i-th direct speaker: an ordinary one, one named and labelled LFE, one
\* only named so, one only labelled so and without coordinates
SpeakerKinds == {"plain", "lfe"}

SpeakerRecord(kind, i) ==
    [name |-> Chars_Speaker(i)
                 \o (IF kind \in {"lfe", "named"} THEN <<"_", "L", "F", "E">> ELSE <<>>),
     speakerLabel |-> IF kind \in {"lfe", "labelled"} THEN Text(<<"L", "F", "E">>)
                      ELSE IF kind = "named" THEN Missing
                      ELSE Text(<<"R", "C", "_", "L">>),
     x |-> IF kind = "labelled" THEN Missing ELSE Frac(i, 10),
     y |-> IF kind = "labelled" THEN Missing ELSE Num(1),
     z |-> IF kind = "labelled" THEN Missing ELSE Num(0),
     channelID |-> IF kind = "labelled" THEN Missing ELSE Str("AC_00011001")]

SpeakersOf(kinds) == [i \in 1..Len(kinds) |-> SpeakerRecord(kinds[i], i)]

SpeakerLists ==
    {SpeakersOf(ks) : ks \in SeqsUpTo(SpeakerKinds, MaxSpeakers)}
    \cup {SpeakersOf(ks) : ks \in {<<"named">>, <<"plain", "labelled">>}}

\* rtime values: HH:MM:SS.fffff timecodes, texts that are none, and no text
Rtime0 == Text(<<"0", "0", ":", "0", "0", ":", "0", "0", ".", "0">>)
Rtime1 == Text(<<"0", "0", ":", "0", "0", ":", "0", "1", ".", "5">>)
Rtime60 == Text(<<"0", "0", ":", "0", "1", ":", "0", "0">>)
RtimeBad == Text(<<"1", ":", "3", "0">>)
RtimeNaN == Text(<<"0", "0", ":", "0", "0", ":", "n", "a", "n">>)
RtimeNeg == Text(<<"0", "0", ":", "0", "0", ":", "-", "5">>)

Block(rtime) == [rtime |-> rtime, x |-> Frac(1, 10), y |-> Num(1), z |-> Num(0)]

\* the position blocks of an object: none, or some in any order of time
BlockLists ==
    {<<>>, <<Block(Rtime0)>>, <<Block(Rtime0), Block(Rtime1)>>,
     <<Block(Rtime60), Block(Rtime1)>>}
RareBlockLists ==
    {<<Block(RtimeBad)>>, <<Block(Missing), Block(Null)>>,
     <<Block(Rtime1), Block(Rtime1)>>, <<Block(RtimeBad), Block(RtimeBad)>>,
     <<Block(RtimeNaN)>>, <<Block(RtimeNeg), Block(Rtime0)>>,
     <<[rtime |-> Rtime1, x |-> Missing, y |-> Missing, z |-> Missing]>>}

Chars_Object(j) == <<"O", "b", "_">> \o NatDigits(j)

ObjectsOf(bls) == [j \in 1..Len(bls) |-> [name |-> Chars_Object(j), blocks |-> bls[j]]]

ObjectLists ==
    {ObjectsOf(bls) : bls \in SeqsUpTo(BlockLists, MaxObjects)}
    \cup {ObjectsOf(<<bl>>) : bl \in RareBlockLists}

ChannelInfo(idx, has_audio) == [channel_index |-> idx, contains_audio |-> has_audio]

\* contains_audio: none, one silent channel, and lists with a repeated index,
\* an entry without index or without flag, and no channels key
ContainsAudio ==
    {Null}
    \cup {[k |-> "dict", channels |-> List(<<ChannelInfo(Num(i), Bool(FALSE))>>)] :
             i \in 0..(MaxSpeakers + MaxObjects - 1)}
RareContainsAudio ==
    {[k |-> "dict", channels |-> Missing],
     [k |-> "dict", channels |-> List(<<ChannelInfo(Num(0), Bool(FALSE)),
                          ChannelInfo(Num(0), Bool(TRUE))>>)],
     [k |-> "dict", channels |-> List(<<ChannelInfo(Null, Bool(FALSE)),
                          ChannelInfo(Num(1), Missing)>>)]}

GlobalData(sample_rate) ==
    [k |-> "dict", SampleRate |-> sample_rate,
     Duration |-> Text(<<"0", "0", ":", "0", "1", ":", "0", "0">>),
     Format |-> Text(<<"A", "D", "M">>)]

\* global_data: none, a sample rate, and a SampleRate that is no int
GlobalDatas == {Null, GlobalData(Text(<<"4", "4", "1", "0", "0">>))}
RareGlobalDatas == {GlobalData(Text(<<"4", "8", "k">>)), GlobalData(Missing)}

AdmInput(objects, speakers, global_data, contains_audio) ==
    [object_data |-> objects, direct_speaker_data |-> speakers,
     global_data |-> global_data, contains_audio |-> contains_audio]

AdmInputs ==
    {AdmInput(o, sp, Null, ca) :
        o \in ObjectLists, sp \in SpeakerLists, ca \in ContainsAudio}
    \cup {AdmInput(o, sp, g, ca) :
             o \in {ObjectsOf(<<>>), ObjectsOf(<<<<Block(Rtime1)>>>>)},
             sp \in {SpeakersOf(<<>>), SpeakersOf(<<"plain", "lfe">>)},
             g \in GlobalDatas \cup RareGlobalDatas,
             ca \in RareContainsAudio}

\* the records of a document that has direct speakers only
SpeakerInputs == {AdmInput(ObjectsOf(<<>>), sp, Null, Null) : sp \in SpeakerLists}

\* well-formed XML documents: with and without <Technical>, with a
\* SampleRate that is no int, with and without the ebuCoreMain root
XmlRoots ==
    {Missing}
    \cup {[speakers |-> sp, objects |-> o] :
             sp \in {SpeakersOf(<<>>), SpeakersOf(<<"plain">>),
                     SpeakersOf(<<"plain", "plain", "plain", "lfe">>)},
             o \in {ObjectsOf(<<>>), ObjectsOf(<<<<Block(Rtime0), Block(Rtime1)>>>>)}}

XmlDocs ==
    {[technical |-> t, root |-> r] :
        t \in {Missing} \cup (GlobalDatas \ {Null}) \cup RareGlobalDatas,
        r \in XmlRoots}

\* explicit durations given to LusidScene(duration=...): a number, and None
Durations == {Num(300), Null}

(***************************************************************************)
(* The state: one session of a caller.  It loads a scene (parse_dict,      *)
(* parse_file) or constructs one, then either serializes it and loads the  *)
(* result again, or passes it to the transcoder and the sidecar extractor, *)
(* up to MaxCalls times in any order (transcode_file passes one scene to   *)
(* both); or it calls time_to_seconds.                                     *)
(***************************************************************************)
VARIABLES
    pc,        \* the caller's position
    input,     \* the operation called first, and its argument
    scene,     \* the scene loaded or constructed, NoScene when none
    diags,     \* the diagnostics the loader issued
    exc,       \* the exception the loader raised, "" when none
    ser,       \* scene.to_dict(), Null before it is called
    reloaded,  \* the result of parse_dict(ser)
    render,    \* the result of transcode_to_sonopleth(scene)
    tts,       \* the result of time_to_seconds
    sidecar,   \* the result of extract_metadata_sidecar(scene)
    history,   \* the operations called on the scene so far, in order
    lfe_hardcoded,  \* xmlParser._DEV_LFE_HARDCODED, the module-level flag
    adm,       \* the channel records handed to the Scene Builder, Null when none
    calls      \* the invocations of adm_to_lusid_scene, one per caller

vars == <<pc, input, scene, diags, exc, ser, reloaded, render, tts, sidecar, history,
          lfe_hardcoded, adm, calls>>

\* the state of the loader's session, and that of the Scene Builder
session == <<pc, input, scene, diags, exc, ser, reloaded, render, tts, sidecar, history>>
builder == <<lfe_hardcoded, adm, calls>>

Pending == Result(Null, <<>>, "pending")

Callers == {1, 2}

\* a caller that has not called: the strategy it wants is the module's default
NoCall == [pc |-> "idle", strategy |-> TRUE, hardcoded |-> Null, res |-> Pending]

Init ==
    /\ pc = "start"
    /\ input = [op |-> "none"]
    /\ scene = NoScene
    /\ diags = <<>>
    /\ exc = ""
    /\ ser = Null
    /\ reloaded = Pending
    /\ render = Pending
    /\ tts = Pending
    /\ sidecar = Pending
    /\ history = <<>>
    /\ lfe_hardcoded = TRUE
    /\ adm = Null
    /\ calls = [c \in Callers |-> NoCall]

Loaded(op, arg, r) ==
    /\ input' = [op |-> op, arg |-> arg]
    /\ scene' = r.val
    /\ diags' = r.diags
    /\ exc' = r.exc
    /\ pc' = IF r.exc = "" THEN "loaded" ELSE "raised"
    /\ UNCHANGED <<ser, reloaded, render, tts, sidecar, history>>
    /\ UNCHANGED builder

ParseDict ==
    /\ pc = "start"
    /\ \E doc \in Docs : Loaded("parse_dict", doc, parse_dict(doc))

ParseFile ==
    /\ pc = "start"
    /\ \E file \in Files : Loaded("parse_file", file, parse_file(file))

Construct ==
    /\ pc = "start"
    /\ \E sc \in BuiltScenes : Loaded("construct", Null, Result(sc, <<>>, ""))

\* xml_etree_parser._DEV_LFE_HARDCODED is True, and nothing assigns it
ParseAdmXml ==
    /\ pc = "start"
    /\ \E xml \in XmlDocs, ca \in {Null} \cup RareContainsAudio :
          Loaded("parse_adm_xml", [xml |-> xml, contains_audio |-> ca],
                 parse_adm_xml_to_lusid_scene(xml, ca, TRUE))

\* LusidScene(duration=d, frames=..., ...)
ConstructWithDuration ==
    /\ pc = "start"
    /\ \E sc \in BuiltScenes, d \in Durations :
          /\ Len(sc.frames) = 2 /\ Len(sc.frames[1].nodes) <= 1
          /\ Loaded("construct_duration", [duration |-> d, fields |-> sc],
                    NewLusidScene(sc.version, sc.frames, sc.time_unit, sc.sample_rate,
                                  sc.metadata, d))

ToDict ==
    /\ pc = "loaded"
    /\ ser' = to_dict(scene)
    /\ pc' = "serialized"
    /\ UNCHANGED <<input, scene, diags, exc, reloaded, render, tts, sidecar, history>>
    /\ UNCHANGED builder

Reload ==
    /\ pc = "serialized"
    /\ reloaded' = parse_dict(ser)
    /\ pc' = "reloaded"
    /\ UNCHANGED <<input, scene, diags, exc, ser, render, tts, sidecar, history>>
    /\ UNCHANGED builder

\* the caller holds a scene on which it may call the transcoder or the
\* sidecar extraction, for the first time or again
Holding == pc \in {"loaded", "transcoded", "extracted"} /\ Len(history) < MaxCalls

\* the call reads the scene it is given, and leaves it as the call left it
Transcode ==
    /\ Holding
    /\ render' = transcode_to_sonopleth(scene, DefaultOutputRate)
    /\ scene' = SceneAfterTranscode(scene)
    /\ history' = Append(history, "transcode")
    /\ pc' = "transcoded"
    /\ UNCHANGED <<input, diags, exc, ser, reloaded, tts, sidecar>>
    /\ UNCHANGED builder

\* transcode_file with a sidecar_path: the sidecar of the scene
Sidecar ==
    /\ Holding
    /\ sidecar' = extract_metadata_sidecar(scene)
    /\ scene' = SceneAfterSidecar(scene)
    /\ history' = Append(history, "sidecar")
    /\ pc' = "extracted"
    /\ UNCHANGED <<input, diags, exc, ser, reloaded, render, tts>>
    /\ UNCHANGED builder

TimeUnits == {"seconds", "milliseconds", "samples", "ticks"}

TimeToSeconds ==
    /\ pc = "start"
    /\ \E v \in 0..MaxTime, d \in 1..2, u \in TimeUnits,
          sr \in {Null} \cup {Num(n) : n \in -1..MaxRate} :
          /\ tts' = [value |-> Frac(v, d), time_unit |-> u, sample_rate |-> sr,
                     res |-> time_to_seconds(Frac(v, d), u, sr)]
          /\ input' = [op |-> "time_to_seconds"]
    /\ pc' = "converted"
    /\ UNCHANGED <<scene, diags, exc, ser, reloaded, render, sidecar, history>>
    /\ UNCHANGED builder

Next ==
    \/ ParseDict
    \/ ParseFile
    \/ Construct
    \/ ParseAdmXml
    \/ ConstructWithDuration
    \/ ToDict
    \/ Reload
    \/ Transcode
    \/ Sidecar
    \/ TimeToSeconds

Spec == Init /\ [][Next]_vars

(***************************************************************************)
(* The Scene Builder's callers.  The records of one ADM document are       *)
(* extracted once; a caller then chooses its LFE strategy the only way the *)
(* module offers, by assigning _DEV_LFE_HARDCODED, and calls               *)
(* adm_to_lusid_scene on the records.  BuilderSpec has one caller;         *)
(* SharedFlagSpec has two, whose steps interleave.                         *)
(***************************************************************************)
Extract ==
    /\ adm = Null
    /\ \E a \in AdmInputs : adm' = a
    /\ UNCHANGED <<lfe_hardcoded, calls>>
    /\ UNCHANGED session

ExtractSpeakers ==
    /\ adm = Null
    /\ \E a \in SpeakerInputs : adm' = a
    /\ UNCHANGED <<lfe_hardcoded, calls>>
    /\ UNCHANGED session

SetStrategy(c) ==
    /\ adm # Null
    /\ calls[c].pc = "idle"
    /\ \E s \in BOOLEAN :
          /\ lfe_hardcoded' = s
          /\ calls' = [calls EXCEPT ![c] = [@ EXCEPT !.pc = "set", !.strategy = s]]
    /\ UNCHANGED adm
    /\ UNCHANGED session

Build(c) ==
    /\ adm # Null
    /\ calls[c].pc \in {"idle", "set"}
    /\ calls' = [calls EXCEPT ![c] =
                    [@ EXCEPT !.pc = "built",
                              !.hardcoded = lfe_hardcoded,
                              !.res = adm_to_lusid_scene(
                                          adm.object_data, adm.direct_speaker_data,
                                          adm.global_data, adm.contains_audio,
                                          lfe_hardcoded)]]
    /\ UNCHANGED <<lfe_hardcoded, adm>>
    /\ UNCHANGED session

BuilderNext ==
    \/ Extract
    \/ SetStrategy(1)
    \/ Build(1)

BuilderSpec == Init /\ [][BuilderNext]_vars

SharedFlagNext ==
    \/ ExtractSpeakers
    \/ \E c \in Callers : SetStrategy(c)
    \/ \E c \in Callers : Build(c)

SharedFlagSpec == Init /\ [][SharedFlagNext]_vars

(***************************************************************************)
(* Properties of the loader.                                               *)
(***************************************************************************)
\* the session began with the loader, and the JSON value it was given
FromLoader == input.op \in {"parse_dict", "parse_file"}

Doc == IF input.op = "parse_file" THEN input.arg.content ELSE input.arg

\* a document whose frames array holds one entry, an object with a finite time
\* and a nodes array; Entries are the node entries of that frame
OneFrame(doc) ==
    /\ doc.k = "dict"
    /\ doc.frames.k = "list"
    /\ Len(doc.frames.items) = 1
    /\ doc.frames.items[1].k = "dict"
    /\ doc.frames.items[1].time.k = "num"
    /\ doc.frames.items[1].nodes.k = "list"

Entries(doc) == doc.frames.items[1].nodes.items

WithEntries(doc, es) ==
    [doc EXCEPT !.frames = List(<<[doc.frames.items[1] EXCEPT !.nodes = List(es)]>>)]

\* C1: a valid scene and the scene loaded from its serialization have the same
\* version, sample rate, frame count, audio-object groups, direct-speaker
\* groups and LFE presence.
C1_RoundTrip ==
    (pc = "reloaded" /\ input.op = "construct") =>
        /\ reloaded.exc = ""
        /\ reloaded.val.version = scene.version
        /\ reloaded.val.sample_rate = scene.sample_rate
        /\ frame_count(reloaded.val) = frame_count(scene)
        /\ audio_object_groups(reloaded.val) = audio_object_groups(scene)
        /\ direct_speaker_groups(reloaded.val) = direct_speaker_groups(scene)
        /\ has_lfe(reloaded.val) = has_lfe(scene)

\* C2: parse_dict returns a scene for every JSON value and never raises;
\* parse_file raises only for a missing file or for text that is not JSON.
C2_LoaderNeverRaises ==
    /\ input.op = "parse_dict" => (exc = "" /\ scene.k = "scene")
    /\ input.op = "parse_file" =>
           \/ exc = "" /\ scene.k = "scene"
           \/ exc = "FileNotFoundError" /\ ~input.arg.exists
           \/ exc = "JSONDecodeError" /\ input.arg.exists /\ ~input.arg.json

\* the node types of the format
NodeTypes == {"audio_object", "direct_speaker", "LFE", "spectral_features", "agent_state"}

\* a node entry that is missing id, has an id not of the form <int>.<int>, is
\* missing type, has an unrecognized type, or is an audio_object whose cart is
\* missing or has a non-finite entry
MalformedEntry(e) ==
    /\ e.k = "dict"
    /\ \/ IsNone(e.id)
       \/ ~is_valid_node_id(PyStr(e.id))
       \/ IsNone(e.type)
       \/ ~(e.type.k = "str" /\ e.type.s \in NodeTypes)
       \/ /\ IsType(e.type, "audio_object")
          /\ \/ IsNone(e.cart)
             \/ /\ e.cart.k = "list"
                /\ \E i \in 1..Len(e.cart.items) : e.cart.items[i].k \notin {"num", "huge"}

NotMalformed(es) == SelectSeq(es, LAMBDA e : ~MalformedEntry(e))

\* C3: a frame with malformed node entries loads without an exception as the
\* same frame without those entries would, every malformed entry being
\* absent and adding a diagnostic.
C3_MalformedNodeDropped ==
    (input.op = "parse_dict" /\ OneFrame(input.arg)
       /\ NotMalformed(Entries(input.arg)) # Entries(input.arg)) =>
        /\ exc = ""
        /\ Len(scene.frames) = 1
        /\ scene.frames[1].nodes =
              parse_dict(WithEntries(input.arg, NotMalformed(Entries(input.arg))))
                 .val.frames[1].nodes
        /\ Len(diags) >=
              Len(parse_dict(WithEntries(input.arg, NotMalformed(Entries(input.arg)))).diags)
              + (Len(Entries(input.arg)) - Len(NotMalformed(Entries(input.arg))))

\* the nodes that the entries of a frame yield one by one, in input order
WellFormedNodes(es) ==
    SelectSeq([i \in 1..Len(es) |-> IF es[i].k = "dict" THEN parse_node(es[i]).val ELSE NoNode],
              LAMBDA n : n.type # "none")

\* of the nodes sharing an id, the last one, the survivors in input order
RECURSIVE KeepLastFrom(_, _)
KeepLastFrom(ns, i) ==
    IF i > Len(ns) THEN <<>>
    ELSE (IF \A j \in (i + 1)..Len(ns) : ns[j].id # ns[i].id THEN <<ns[i]>> ELSE <<>>)
         \o KeepLastFrom(ns, i + 1)

IdsOf(ns) == {ns[i].id : i \in 1..Len(ns)}

KeptEntries(fs) == {i \in 1..Len(fs) : fs[i].k = "dict" /\ fs[i].time.k = "num"}

\* the place of kept entry i in a stable ascending sort by time
Rank(fs, i) ==
    Cardinality({j \in KeptEntries(fs) :
                    \/ NumLess(fs[j].time, fs[i].time)
                    \/ NumEq(fs[j].time, fs[i].time) /\ j <= i})

HasFramesArray(doc) == doc.k = "dict" /\ doc.frames.k = "list"

\* C5: the frames of a loaded scene are exactly the input frame entries that
\* are objects with a finite numeric time, in non-decreasing time order,
\* frames of equal time in their input order.
C5_FramesStableSorted ==
    (FromLoader /\ exc = "" /\ HasFramesArray(Doc)) =>
        /\ Len(scene.frames) = Cardinality(KeptEntries(Doc.frames.items))
        /\ \A i \in KeptEntries(Doc.frames.items) :
              scene.frames[Rank(Doc.frames.items, i)] =
                  parse_frame(Doc.frames.items[i], i - 1).val
        /\ \A a, b \in 1..Len(scene.frames) :
              a < b => NumLeq(scene.frames[a].time, scene.frames[b].time)

\* frames given out of time order, two of them of equal time and different nodes
C5_Witness ==
    /\ input.op = "parse_dict" /\ exc = "" /\ HasFramesArray(input.arg)
    /\ \E i, j \in KeptEntries(input.arg.frames.items) :
          /\ i < j
          /\ NumLess(input.arg.frames.items[j].time, input.arg.frames.items[i].time)
    /\ \E i, j \in KeptEntries(input.arg.frames.items) :
          /\ i < j
          /\ NumEq(input.arg.frames.items[i].time, input.arg.frames.items[j].time)
          /\ input.arg.frames.items[i].nodes # input.arg.frames.items[j].nodes
    /\ Len(scene.frames) = 3

\* a cart of three finite numbers
FiniteCart3(c) ==
    c.k = "list" /\ Len(c.items) = 3 /\ \A i \in 1..3 : c.items[i].k = "num"

\* entry i of the frame is a direct_speaker with a valid id that no other
\* entry of the frame has
DirectSpeakerEntry(es, i) ==
    /\ es[i].k = "dict"
    /\ IsType(es[i].type, "direct_speaker")
    /\ ~IsNone(es[i].id)
    /\ is_valid_node_id(PyStr(es[i].id))
    /\ \A j \in 1..Len(es) : (j # i /\ es[j].k = "dict") => es[j].id # es[i].id

\* the frame holds the DirectSpeaker node that entry e describes
HoldsDirectSpeaker(nodes, e) ==
    \E j \in 1..Len(nodes) :
        /\ nodes[j].type = "direct_speaker"
        /\ nodes[j].id = PyStr(e.id)
        /\ nodes[j].cart = e.cart.items
        /\ e.speakerLabel.k = "str" => nodes[j].speakerLabel = e.speakerLabel.s
        /\ e.channelID.k = "str" => nodes[j].channelID = e.channelID.s

\* C6: a direct_speaker entry with a valid id and a cart of three finite
\* numbers is loaded as a DirectSpeaker node with its cart, speakerLabel and
\* channelID; one whose cart is missing or not finite is dropped.
C6_DirectSpeakerLoaded ==
    (input.op = "parse_dict" /\ exc = "" /\ OneFrame(input.arg)) =>
        \A i \in 1..Len(Entries(input.arg)) :
            DirectSpeakerEntry(Entries(input.arg), i) =>
                IF FiniteCart3(Entries(input.arg)[i].cart)
                THEN HoldsDirectSpeaker(scene.frames[1].nodes, Entries(input.arg)[i])
                ELSE \A j \in 1..Len(scene.frames[1].nodes) :
                        scene.frames[1].nodes[j].id # PyStr(Entries(input.arg)[i].id)

(***************************************************************************)
(* Properties of time_to_seconds and of the transcoder.                    *)
(***************************************************************************)
\* C7: time_to_seconds returns v for seconds, v x 0.001 for milliseconds and
\* v / sr for samples with a positive integer sr; for samples with sr absent,
\* zero or negative it raises ValueError and returns nothing.
C7_TimeToSeconds ==
    pc = "converted" =>
        /\ tts.time_unit = "seconds" =>
              (tts.res.exc = "" /\ NumEq(tts.res.val, tts.value))
        /\ tts.time_unit = "milliseconds" =>
              /\ tts.res.exc = ""
              /\ tts.res.val.d # 0
              /\ tts.res.val.n * tts.value.d * 1000 = tts.value.n * tts.res.val.d
        /\ (tts.time_unit = "samples" /\ tts.sample_rate.k = "num" /\ tts.sample_rate.n > 0) =>
              /\ tts.res.exc = ""
              /\ tts.res.val.d # 0
              /\ tts.res.val.n * tts.value.d * tts.sample_rate.n
                    = tts.value.n * tts.res.val.d * tts.sample_rate.d
        /\ (tts.time_unit = "samples"
              /\ (tts.sample_rate.k = "null" \/ tts.sample_rate.n <= 0)) =>
              (tts.res.exc = "ValueError" /\ tts.res.val = Null)

\* a time in samples that is no multiple of the rate was converted, and a
\* negative rate is among the rates tried
C7_Witness ==
    /\ pc = "converted"
    /\ tts.time_unit = "samples"
    /\ tts.sample_rate = Num(MaxRate)
    /\ tts.value = Frac(1, 2)
    /\ tts.res = Result(Frac(1, 2 * MaxRate), <<>>, "")

\* the transcoder skips frame i of the scene: its time does not convert
Skipped(scn, i) ==
    time_to_seconds(scn.frames[i].time, scn.time_unit, scn.sample_rate).exc = "ValueError"

\* C8: the transcoder never fails on a scene the loader returned; it skips the
\* frames whose time cannot be converted, with one diagnostic each.
C8_TranscodeNeverFails ==
    (pc = "transcoded" /\ FromLoader) =>
        /\ render.exc = ""
        /\ Len(render.diags) =
              Cardinality({i \in 1..Len(scene.frames) : Skipped(scene, i)})

\* the AudioObject nodes of group g in a frame, in node order
GroupObjects(frame, g) ==
    SelectSeq(frame.nodes, LAMBDA n : n.type = "audio_object" /\ group(n) = g)

\* the keyframe of AudioObject node n of frame i
KeyframeOf(scn, i, n) ==
    [time |-> Round6(time_to_seconds(scn.frames[i].time, scn.time_unit,
                                     scn.sample_rate).val),
     cart |-> <<Round6(n.cart[1]), Round6(n.cart[2]), Round6(n.cart[3])>>]

\* one keyframe per AudioObject node of group g in the frames from i on that
\* are not skipped, frame by frame
RECURSIVE ExpectedTrack(_, _, _)
ExpectedTrack(scn, g, i) ==
    IF i > Len(scn.frames) THEN <<>>
    ELSE (IF Skipped(scn, i) THEN <<>>
          ELSE [k \in 1..Len(GroupObjects(scn.frames[i], g)) |->
                   KeyframeOf(scn, i, GroupObjects(scn.frames[i], g)[k])])
         \o ExpectedTrack(scn, g, i + 1)

\* the groups looked at: those of the scene's nodes and some that it has not
GroupRange(scn) == audio_object_groups(scn) \cup (-1..5)

LfeTrack == <<[time |-> Num(0)]>>

\* C10: when an LFE node is in any frame of the scene the sources hold a track
\* LFE equal to [{time: 0.0}], and when none is they hold no track LFE.
C10_LfeTrackIffLfeNode ==
    (pc = "transcoded" /\ render.exc = "") =>
        IF has_lfe(scene)
        THEN /\ LfeName \in DOMAIN render.val.sources
             /\ render.val.sources[LfeName] = LfeTrack
        ELSE LfeName \notin DOMAIN render.val.sources

\* an LFE node is in a frame that the transcoder does not skip
LfeInConvertedFrame(scn) ==
    \E i \in 1..Len(scn.frames) :
        ~Skipped(scn, i) /\ get_nodes_by_type(scn.frames[i], "LFE") # <<>>

\* C10, amended: the sources hold the track LFE, equal to [{time: 0.0}],
\* exactly when an LFE node is in a frame whose time converts to seconds; an
\* LFE node in skipped frames only yields no track.
C10_LfeTrackIffLfeInConvertedFrame ==
    (pc = "transcoded" /\ render.exc = "") =>
        IF LfeInConvertedFrame(scene)
        THEN /\ LfeName \in DOMAIN render.val.sources
             /\ render.val.sources[LfeName] = LfeTrack
        ELSE LfeName \notin DOMAIN render.val.sources

\* a scene in samples with a rate, an LFE node in its last frame, transcoded
C10_Witness ==
    /\ pc = "transcoded" /\ render.exc = ""
    /\ scene.time_unit = "samples"
    /\ Len(scene.frames) = 2
    /\ get_nodes_by_type(scene.frames[1], "LFE") = <<>>
    /\ get_nodes_by_type(scene.frames[2], "LFE") # <<>>
    /\ LfeName \in DOMAIN render.val.sources
    /\ SrcName(1) \in DOMAIN render.val.sources

\* the groups of the AudioObject nodes in the frames the transcoder does not skip
ConvertedObjectGroups(scn) ==
    UNION {{group(scn.frames[i].nodes[j]) :
               j \in {k \in 1..Len(scn.frames[i].nodes) :
                         scn.frames[i].nodes[k].type = "audio_object"}} :
           i \in {k \in 1..Len(scn.frames) : ~Skipped(scn, k)}}

\* C11: the track names are exactly src_<g> for the groups g of the
\* AudioObject nodes in non-skipped frames, plus LFE when an LFE node is
\* present in the scene; no other node type creates a track.
C11_TrackNames ==
    (pc = "transcoded" /\ render.exc = "") =>
        DOMAIN render.val.sources =
            {SrcName(g) : g \in ConvertedObjectGroups(scene)}
            \cup (IF has_lfe(scene) THEN {LfeName} ELSE {})

\* C11, amended: the track names are exactly src_<g> for the groups g of the
\* AudioObject nodes in non-skipped frames, plus LFE when an LFE node is in a
\* non-skipped frame; SpectralFeatures, AgentState and DirectSpeaker nodes
\* never create a track.
C11_TrackNamesOfConvertedFrames ==
    (pc = "transcoded" /\ render.exc = "") =>
        DOMAIN render.val.sources =
            {SrcName(g) : g \in ConvertedObjectGroups(scene)}
            \cup (IF LfeInConvertedFrame(scene) THEN {LfeName} ELSE {})

\* a scene with a DirectSpeaker, a SpectralFeatures and an AudioObject node
\* of three groups was transcoded into the one track of the AudioObject
C11_Witness ==
    /\ pc = "transcoded" /\ render.exc = ""
    /\ direct_speaker_groups(scene) # {}
    /\ GroupsOfType(scene, "spectral_features") # {}
    /\ direct_speaker_groups(scene) \cap audio_object_groups(scene) = {}
    /\ DOMAIN render.val.sources = {SrcName(2)}

(***************************************************************************)
(* Properties of the metadata sidecar.                                     *)
(***************************************************************************)
MetadataTypes == {"spectral_features", "agent_state"}

\* the nodes of type ty and group g in a frame, in node order
GroupMetadata(frame, g, ty) ==
    SelectSeq(frame.nodes, LAMBDA n : n.type = ty /\ group(n) = g)

\* the groups and types of the metadata nodes in the frames that convert
ConvertedMetadata(scn) ==
    UNION {{<<group(scn.frames[i].nodes[j]), scn.frames[i].nodes[j].type>> :
               j \in {k \in 1..Len(scn.frames[i].nodes) :
                         scn.frames[i].nodes[k].type \in MetadataTypes}} :
           i \in {k \in 1..Len(scn.frames) : ~Skipped(scn, k)}}

\* one entry per node of type ty and group g in the frames from i on that
\* convert, frame by frame: the frame's time in seconds and the payload's
\* other fields
RECURSIVE ExpectedEntries(_, _, _, _)
ExpectedEntries(scn, g, ty, i) ==
    IF i > Len(scn.frames) THEN <<>>
    ELSE (IF Skipped(scn, i) THEN <<>>
          ELSE [k \in 1..Len(GroupMetadata(scn.frames[i], g, ty)) |->
                   [GroupMetadata(scn.frames[i], g, ty)[k].data
                       EXCEPT !.time = Round6(FrameSeconds(scn, i).val)]])
         \o ExpectedEntries(scn, g, ty, i + 1)

\* C12: for every SpectralFeatures or AgentState node in a frame whose time
\* converts, groups[str(group)][type] holds exactly one entry, in frame order,
\* whose time is the frame's time in seconds and whose other fields are the
\* payload; no other node type creates a group, a type key or an entry.
C12_SidecarEntries ==
    (pc = "extracted" /\ sidecar.exc = "") =>
        /\ \A g \in DOMAIN sidecar.val.groups : \A ty \in DOMAIN sidecar.val.groups[g] :
              <<g, ty>> \in ConvertedMetadata(scene)
        /\ \A e \in ConvertedMetadata(scene) :
              /\ e[1] \in DOMAIN sidecar.val.groups
              /\ e[2] \in DOMAIN sidecar.val.groups[e[1]]
              /\ sidecar.val.groups[e[1]][e[2]] = ExpectedEntries(scene, e[1], e[2], 1)

\* the sidecar of a scene with an audio node and two metadata nodes of one
\* group and type in frames that convert
C12_Witness ==
    /\ pc = "extracted" /\ sidecar.exc = ""
    /\ \E g \in DOMAIN sidecar.val.groups :
          /\ "spectral_features" \in DOMAIN sidecar.val.groups[g]
          /\ Len(sidecar.val.groups[g]["spectral_features"]) = 2
          /\ sidecar.val.groups[g]["spectral_features"]
                = ExpectedEntries(scene, g, "spectral_features", 1)
    /\ \E i \in 1..Len(scene.frames) : \E j \in 1..Len(scene.frames[i].nodes) :
          scene.frames[i].nodes[j].type \notin MetadataTypes

(***************************************************************************)
(* Properties of the Scene Builder.                                        *)
(***************************************************************************)
\* caller c's call of adm_to_lusid_scene returned a scene
Built(c) == calls[c].pc = "built" /\ calls[c].res.exc = ""

BuiltScene(c) == calls[c].res.val

\* the positions <<frame, node>> of the nodes of group g with a type in types
NodesOfGroup(scn, g, types) ==
    {p \in UNION {{<<i, j>> : j \in 1..Len(scn.frames[i].nodes)} :
                     i \in 1..Len(scn.frames)} :
        /\ scn.frames[p[1]].nodes[p[2]].type \in types
        /\ group(scn.frames[p[1]].nodes[p[2]]) = g}

SpeakerTypes == {"direct_speaker", "LFE"}
AllTypes == SpeakerTypes \cup {"audio_object", "spectral_features", "agent_state"}

\* the audio map of the call marks the channel with this 0-based index silent
Silent(index) ==
    /\ index \in DOMAIN build_channel_audio_map(adm.contains_audio)
    /\ ~build_channel_audio_map(adm.contains_audio)[index]

\* the channel is active: the map marks it so, or has no entry for it
Active(index) == ~Silent(index)

\* C13: the k-th direct speaker owns group k and the j-th object record owns
\* group N+j, whatever the audio-activity predicate says: an active speaker's
\* one node and an active object's one node per block carry that group, and a
\* silent channel emits no node but keeps its number.
C13_GroupNumbering ==
    Built(1) =>
        LET N == Len(adm.direct_speaker_data)
            M == Len(adm.object_data)
        IN /\ \A k \in 1..N :
                 /\ NodesOfGroup(BuiltScene(1), k, AllTypes \ SpeakerTypes) = {}
                 /\ Cardinality(NodesOfGroup(BuiltScene(1), k, SpeakerTypes))
                       = IF Active(k - 1) THEN 1 ELSE 0
                 /\ \A p \in NodesOfGroup(BuiltScene(1), k, {"direct_speaker"}) :
                       BuiltScene(1).frames[p[1]].nodes[p[2]].cart[1]
                          = Coord(adm.direct_speaker_data[k].x)
           /\ \A j \in 1..M :
                 /\ NodesOfGroup(BuiltScene(1), N + j, AllTypes \ {"audio_object"}) = {}
                 /\ Cardinality(NodesOfGroup(BuiltScene(1), N + j, {"audio_object"}))
                       = IF Active(N + j - 1) THEN Len(adm.object_data[j].blocks) ELSE 0
           /\ \A g \in 0..(N + M + 1) :
                 g \notin 1..(N + M) => NodesOfGroup(BuiltScene(1), g, AllTypes) = {}

\* a scene built from three speakers, the second silent, and two objects
\* with blocks: the groups 1, 3, 4 and 5 have nodes and group 2 has none
C13_Witness ==
    /\ Built(1)
    /\ Len(adm.direct_speaker_data) = 3 /\ Len(adm.object_data) = 2
    /\ ~Active(1)
    /\ \A j \in 1..2 : adm.object_data[j].blocks # <<>>
    /\ NodesOfGroup(BuiltScene(1), 2, AllTypes) = {}
    /\ \A g \in {1, 3, 4, 5} : NodesOfGroup(BuiltScene(1), g, AllTypes) # {}

\* the call read _DEV_LFE_HARDCODED as True: the positional LFE strategy
Positional(c) == Built(c) /\ calls[c].hardcoded = TRUE

SceneBy(s) ==
    adm_to_lusid_scene(adm.object_data, adm.direct_speaker_data, adm.global_data,
                       adm.contains_audio, s).val

\* C15: the LFE strategy of an invocation is determined by that invocation
\* alone, never by module-level state: each of two invocations on the same
\* records classifies the LFE by the strategy it asked for, whatever the other
\* invocation asks for.
C15_StrategyPerInvocation ==
    \A c \in Callers : Built(c) => BuiltScene(c) = SceneBy(calls[c].strategy)

\* caller 1 asked for the label strategy and caller 2 for the positional one
\* on four speakers of which the second is labelled LFE; both have built
C15_Witness ==
    /\ \A c \in Callers : Built(c)
    /\ ~calls[1].strategy /\ calls[2].strategy
    /\ Len(adm.direct_speaker_data) = 4
    /\ Contains(Lower(LabelOf(adm.direct_speaker_data[2])), Chars_lfe)
    /\ ~Contains(Lower(LabelOf(adm.direct_speaker_data[4])), Chars_lfe)
    /\ SceneBy(TRUE) # SceneBy(FALSE)

\* the number of position blocks of the object records
RECURSIVE BlockCount(_)
BlockCount(objects) ==
    IF objects = <<>> THEN 0 ELSE Len(Head(objects).blocks) + BlockCount(Tail(objects))

SpeakerNodes(scn) ==
    {p \in UNION {{<<i, j>> : j \in 1..Len(scn.frames[i].nodes)} :
                     i \in 1..Len(scn.frames)} :
        scn.frames[p[1]].nodes[p[2]].type \in SpeakerTypes}

\* C17: in a scene of the Scene Builder every DirectSpeaker and LFE node is
\* in the frame at time 0.0, and no other frame contains one.
C17_StaticNodesAtZero ==
    Built(1) =>
        /\ \A p \in SpeakerNodes(BuiltScene(1)) :
              NumEq(BuiltScene(1).frames[p[1]].time, Num(0))
        /\ \A p, q \in SpeakerNodes(BuiltScene(1)) : p[1] = q[1]

\* a scene of three frames: DirectSpeaker nodes, the LFE and an object's
\* node at 0.0, and two later frames of object nodes only
C17_Witness ==
    /\ Built(1)
    /\ Len(BuiltScene(1).frames) = 3
    /\ get_nodes_by_type(BuiltScene(1).frames[1], "direct_speaker") # <<>>
    /\ get_nodes_by_type(BuiltScene(1).frames[1], "LFE") # <<>>
    /\ get_nodes_by_type(BuiltScene(1).frames[1], "audio_object") # <<>>
    /\ NumEq(BuiltScene(1).frames[1].time, Num(0))
    /\ \A i \in 2..3 :
          /\ BuiltScene(1).frames[i].nodes # <<>>
          /\ \A j \in 1..Len(BuiltScene(1).frames[i].nodes) :
                BuiltScene(1).frames[i].nodes[j].type = "audio_object"

\* C18: the frame times of a scene of the Scene Builder are strictly
\* increasing, one frame per distinct time, and no frame has an empty node
\* list; without speakers and objects the scene has no frame.
C18_FramesIncreasingNonEmpty ==
    Built(1) =>
        /\ \A i, j \in 1..Len(BuiltScene(1).frames) :
              i < j => NumLess(BuiltScene(1).frames[i].time, BuiltScene(1).frames[j].time)
        /\ \A i \in 1..Len(BuiltScene(1).frames) : BuiltScene(1).frames[i].nodes # <<>>
        /\ (adm.direct_speaker_data = <<>> /\ adm.object_data = <<>>) =>
              BuiltScene(1).frames = <<>>

\* the one speaker is silent and the blocks of an object come later before
\* earlier: the scene has no frame at 0.0, and its two frames are in
\* ascending time; another object's two blocks at the same times share them
C18_Witness ==
    /\ Built(1)
    /\ Len(adm.direct_speaker_data) = 1 /\ Silent(0)
    /\ Len(adm.object_data) = 2
    /\ adm.object_data[1].blocks = <<Block(Rtime60), Block(Rtime1)>>
    /\ adm.object_data[2].blocks = <<Block(Rtime60), Block(Rtime1)>>
    /\ Len(BuiltScene(1).frames) = 2
    /\ NumLess(Num(0), BuiltScene(1).frames[1].time)
    /\ NumLess(BuiltScene(1).frames[1].time, BuiltScene(1).frames[2].time)
    /\ \A i \in 1..2 : Len(BuiltScene(1).frames[i].nodes) = 2

(***************************************************************************)
(* Properties of the single-step XML pipeline and of the scene's duration. *)
(***************************************************************************)
\* the scene the Scene Builder's rules give on the channels of the document
XmlExpected ==
    adm_to_lusid_scene(input.arg.xml.root.objects, input.arg.xml.root.speakers,
                       IF input.arg.xml.technical = Missing THEN Null
                       ELSE input.arg.xml.technical,
                       input.arg.contains_audio, TRUE).val

\* C19: parse_adm_xml_to_lusid_scene returns a scene and raises no exception
\* on every well-formed XML document: the scene built from the channels when
\* the ADM root is found, and without root an empty scene (no frames, version
\* "0.5") with a diagnostic.
C19_XmlAlwaysReturnsScene ==
    input.op = "parse_adm_xml" =>
        /\ exc = ""
        /\ scene # NoScene
        /\ IF input.arg.xml.root = Missing
           THEN scene.frames = <<>> /\ scene.version = "0.5" /\ diags # <<>>
           ELSE scene.frames = XmlExpected.frames /\ scene.version = "0.5"

\* a document without ADM root gave the empty scene and a diagnostic
C19_Witness ==
    /\ input.op = "parse_adm_xml" /\ pc = "loaded"
    /\ input.arg.xml.root = Missing
    /\ scene.frames = <<>> /\ scene.version = "0.5" /\ diags # <<>>

\* the fields given to the constructor
Given == IF input.op = "construct_duration" THEN input.arg.fields ELSE scene

\* the duration computed from the frames
CalculatedDuration(scn) ==
    IF scn.frames = <<>> THEN Num(0) ELSE scn.frames[Len(scn.frames)].time

\* C20: a scene can be constructed with an explicit duration, distinct from
\* the calculated one (the last frame's time, 0.0 without frames); duration
\* and duration_seconds report the explicit value when one is given, and
\* duration_seconds is otherwise the calculated duration in seconds.
C20_ExplicitDuration ==
    input.op \in {"construct", "construct_duration"} =>
        /\ exc = ""
        /\ scene.frames = Given.frames
        /\ IF input.op = "construct_duration" /\ input.arg.duration # Null
           THEN /\ duration(scene) = input.arg.duration
                /\ duration_seconds(scene).val = input.arg.duration
           ELSE /\ duration(scene) = CalculatedDuration(Given)
                /\ duration_seconds(scene)
                      = time_to_seconds(CalculatedDuration(Given), scene.time_unit,
                                        scene.sample_rate)

\* a scene constructed without explicit duration, of two frames: its duration
\* is the last frame's time, 1.0
C20_Witness ==
    /\ input.op = "construct" /\ pc = "loaded"
    /\ Len(scene.frames) = 2
    /\ duration(scene) = Num(1)
    /\ duration_seconds(scene) = Result(Num(1), <<>>, "")

(***************************************************************************)
(* Properties of serialization.                                            *)
(***************************************************************************)
\* the dict of node j of frame i in the serialized scene
SerNode(i, j) == ser.frames.items[i].nodes.items[j]

\* C21: to_dict always has version, timeUnit and frames; it has sampleRate
\* iff the scene has a sample rate and metadata iff the metadata mapping is
\* non-empty; an audio_object's dict has gain iff the gain is not 1.0, and a
\* direct_speaker's dict has speakerLabel (channelID) iff that string is not
\* empty
C21_OptionalFieldsEmitted ==
    pc = "serialized" =>
        /\ ser.version # Missing /\ ser.timeUnit # Missing /\ ser.frames.k = "list"
        /\ Len(ser.frames.items) = Len(scene.frames)
        /\ (ser.sampleRate # Missing) <=> (scene.sample_rate # Null)
        /\ (ser.metadata # Missing) <=> (scene.metadata.keys # {})
        /\ \A i \in 1..Len(scene.frames) : \A j \in 1..Len(scene.frames[i].nodes) :
              LET n == scene.frames[i].nodes[j] IN
              /\ n.type = "audio_object" =>
                    /\ (SerNode(i, j).gain # Missing) <=> ~NumEq(n.gain, Num(1))
                    /\ SerNode(i, j).gain # Missing => SerNode(i, j).gain = n.gain
              /\ n.type = "direct_speaker" =>
                    /\ (SerNode(i, j).speakerLabel # Missing) <=> (n.speakerLabel # "")
                    /\ (SerNode(i, j).channelID # Missing) <=> (n.channelID # "")

\* a serialized scene without sample rate whose first frame holds an object
\* of gain 1.0 and a speaker without label, and one with a sample rate, an
\* object of another gain and a labelled speaker
C21_Witness ==
    /\ pc = "serialized"
    /\ Len(scene.frames) >= 1
    /\ \E a, b \in 1..Len(scene.frames[1].nodes) :
          LET n == scene.frames[1].nodes[a]
              m == scene.frames[1].nodes[b] IN
          /\ n.type = "audio_object" /\ m.type = "direct_speaker"
          /\ \/ /\ scene.sample_rate = Null /\ NumEq(n.gain, Num(1))
                /\ m.speakerLabel = "" /\ SerNode(1, a).gain = Missing
                /\ SerNode(1, b).speakerLabel = Missing
             \/ /\ scene.sample_rate # Null /\ ~NumEq(n.gain, Num(1))
                /\ m.speakerLabel # "" /\ SerNode(1, a).gain = n.gain
                /\ SerNode(1, b).speakerLabel = Str(m.speakerLabel)

(***************************************************************************)
(* Properties of the Scene Builder's frames and nodes.                     *)
(***************************************************************************)
\* two of the blocks carry the same rtime
SameRtime(blocks) ==
    \E a, b \in 1..Len(blocks) : a # b /\ blocks[a].rtime = blocks[b].rtime

\* C22: in every frame of every scene adm_to_lusid_scene returns, the node
\* ids are pairwise distinct, also when an object has two position blocks
\* with the same rtime or several malformed timecodes
C22_BuilderFrameIdsDistinct ==
    Built(1) =>
        \A i \in 1..Len(BuiltScene(1).frames) : DistinctIds(BuiltScene(1).frames[i].nodes)

\* an active object with two blocks of one rtime, built into one frame that
\* holds both its nodes
C22_Witness ==
    /\ Built(1)
    /\ adm.contains_audio = Null
    /\ Len(adm.object_data) = 1
    /\ SameRtime(adm.object_data[1].blocks)
    /\ \E i \in 1..Len(BuiltScene(1).frames) :
          Len(get_nodes_by_type(BuiltScene(1).frames[i], "audio_object")) = 2

\* the text has the shape HH:MM:SS or HH:MM:SS.f..., all of digits
IsTimecode(rtime) ==
    /\ rtime.k = "text"
    /\ Len(rtime.c) >= 8 /\ Len(rtime.c) # 9
    /\ \A p \in {1, 2, 4, 5, 7, 8} : rtime.c[p] \in Digits
    /\ \A p \in {3, 6} : rtime.c[p] = ":"
    /\ Len(rtime.c) > 9 =>
          /\ rtime.c[9] = "."
          /\ \A p \in 10..Len(rtime.c) : rtime.c[p] \in Digits

\* the number a pair of digits denotes
TwoDigits(cs, p) == 10 * DigitVal(cs[p]) + DigitVal(cs[p + 1])

\* hours*3600 + minutes*60 + seconds of a timecode, read digit by digit
SecondsOfTimecode(cs) ==
    LET whole == TwoDigits(cs, 1) * 3600 + TwoDigits(cs, 4) * 60 + TwoDigits(cs, 7)
        digits == SubSeq(cs, 10, Len(cs))
    IN Frac(whole * Pow10(Len(digits)) + DigitsValue(digits, 0), Pow10(Len(digits)))

\* a block without rtime has the timecode 00:00:00.00000
Malformed(block) == block.rtime # Missing /\ ~IsTimecode(block.rtime)

\* the time of the frame a block's node belongs in
BlockSeconds(block) ==
    IF block.rtime = Missing \/ Malformed(block) THEN Num(0)
    ELSE SecondsOfTimecode(block.rtime.c)

\* the group the builder gives the j-th object record: the objects that
\* have blocks are numbered after the speakers
ObjectGroup(j) ==
    Len(adm.direct_speaker_data)
    + Cardinality({i \in 1..j : adm.object_data[i].blocks # <<>>})

\* the object records that have blocks and whose channel is active
ActiveObjects ==
    {j \in 1..Len(adm.object_data) :
        adm.object_data[j].blocks # <<>> /\ Active(ObjectGroup(j) - 1)}

\* the positions of the audio_object nodes of group g in the frames whose
\* time is t
ObjectNodesAt(scn, g, t) ==
    {p \in NodesOfGroup(scn, g, {"audio_object"}) : NumEq(scn.frames[p[1]].time, t)}

RECURSIVE MalformedCount(_)
MalformedCount(blocks) ==
    IF blocks = <<>> THEN 0
    ELSE (IF Malformed(Head(blocks)) THEN 1 ELSE 0) + MalformedCount(Tail(blocks))

RECURSIVE SumOver(_, _)
SumOver(S, blocksOf) ==
    IF S = {} THEN 0
    ELSE LET j == CHOOSE x \in S : TRUE
         IN MalformedCount(blocksOf[j].blocks) + SumOver(S \ {j}, blocksOf)

\* C23: for every active object channel with group g the builder emits one
\* audio_object node "<g>.1" per position block, in the frame whose time is
\* hours*3600 + minutes*60 + seconds of the block's rtime; the node of a
\* block whose timecode is malformed is in the frame at 0.0, with one
\* diagnostic, and the build does not abort
C23_NodePerBlockAtItsTime ==
    (calls[1].pc = "built" /\ BuilderSampleRate(GlobalDataOf(adm.global_data)).exc = "") =>
        /\ calls[1].res.exc = ""
        /\ Len(calls[1].res.diags) = SumOver(ActiveObjects, adm.object_data)
        /\ \A j \in ActiveObjects :
              LET blocks == adm.object_data[j].blocks
                  g == ObjectGroup(j)
                  scn == BuiltScene(1)
              IN /\ Cardinality(NodesOfGroup(scn, g, {"audio_object"})) = Len(blocks)
                 /\ \A p \in NodesOfGroup(scn, g, {"audio_object"}) :
                       scn.frames[p[1]].nodes[p[2]].id = GroupId(g)
                 /\ \A b \in 1..Len(blocks) :
                       Cardinality(ObjectNodesAt(scn, g, BlockSeconds(blocks[b])))
                          = Cardinality({c \in 1..Len(blocks) :
                                            NumEq(BlockSeconds(blocks[c]),
                                                  BlockSeconds(blocks[b]))})

\* an object whose blocks are at 00:01:00 and 00:00:01.5 has one node in the
\* frame at 60.0 and one in the frame at 1.5, and an object whose one block
\* has the rtime "1:30" has its node in the frame at 0.0, with a diagnostic
C23_Witness ==
    /\ Built(1)
    /\ Len(adm.object_data) = 1 /\ ActiveObjects = {1}
    /\ \/ /\ adm.object_data[1].blocks = <<Block(Rtime60), Block(Rtime1)>>
          /\ Cardinality(ObjectNodesAt(BuiltScene(1), ObjectGroup(1), Num(60))) = 1
          /\ Cardinality(ObjectNodesAt(BuiltScene(1), ObjectGroup(1), Frac(3, 2))) = 1
          /\ calls[1].res.diags = <<>>
       \/ /\ adm.object_data[1].blocks = <<Block(RtimeBad)>>
          /\ Cardinality(ObjectNodesAt(BuiltScene(1), ObjectGroup(1), Num(0))) = 1
          /\ Len(calls[1].res.diags) = 1

(***************************************************************************)
(* Properties of the loader's header fields and node rules.                *)
(***************************************************************************)
\* a positive integer: one a float holds, or one too large for that
PositiveInt(v) == v = Huge \/ (v.k = "num" /\ v.d = 1 /\ v.n > 0)

\* a positive number: finite, huge or +Infinity
PositiveNumber(v) ==
    \/ v = Huge \/ v = PosInf
    \/ v.k = "num" /\ v.n > 0

\* C24: the sample rate of a scene parse_dict returns is absent or a positive
\* integer; a sampleRate that is no positive number is treated as absent,
\* with a diagnostic, and no accepted value is stored as 0 or as a negative
\* number
C24_SampleRateAbsentOrPositive ==
    (input.op = "parse_dict" /\ exc = "") =>
        /\ scene.sample_rate = Null \/ PositiveInt(scene.sample_rate)
        /\ (Doc.k = "dict" /\ ~IsNone(Doc.sampleRate) /\ ~PositiveNumber(Doc.sampleRate)) =>
              /\ scene.sample_rate = Null
              /\ \E i \in 1..Len(diags) : diags[i] = "invalid sampleRate, ignoring"

\* a sampleRate of 0 or -1 gave a scene without sample rate, with the
\* diagnostic
C24_Witness ==
    /\ input.op = "parse_dict" /\ exc = ""
    /\ Doc.k = "dict" /\ Doc.sampleRate \in {Num(0), Num(-1)}
    /\ scene.sample_rate = Null
    /\ \E i \in 1..Len(diags) : diags[i] = "invalid sampleRate, ignoring"

\* an upper-case letter and its lower-case one
CasePairs ==
    {<<"S", "s">>, <<"E", "e">>, <<"C", "c">>, <<"O", "o">>, <<"N", "n">>, <<"D", "d">>,
     <<"A", "a">>, <<"M", "m">>, <<"P", "p">>, <<"L", "l">>, <<"I", "i">>}

\* the text is the alias in some letter case, between blanks
WritesAlias(cs, alias) ==
    \E a \in 1..(Len(cs) + 1) :
        /\ a + Len(alias) - 1 <= Len(cs)
        /\ \A i \in 1..Len(alias) :
              cs[a + i - 1] = alias[i] \/ <<cs[a + i - 1], alias[i]>> \in CasePairs
        /\ \A i \in 1..Len(cs) :
              (i < a \/ i > a + Len(alias) - 1) => cs[i] \in {" ", "\t", "\n"}

\* the units whose aliases the value of timeUnit writes
UnitsWritten(tu) ==
    IF tu.k # "text" THEN {}
    ELSE {u \in {"seconds", "samples", "milliseconds"} :
             \E alias \in {Chars_seconds, Chars_s, Chars_samples, Chars_samp,
                           Chars_milliseconds, Chars_ms} :
                /\ WritesAlias(tu.c, alias)
                /\ u = (IF alias \in {Chars_seconds, Chars_s} THEN "seconds"
                        ELSE IF alias \in {Chars_samples, Chars_samp} THEN "samples"
                        ELSE "milliseconds")}

UnitDiagnostic == \E i \in 1..Len(diags) : diags[i] = "unknown timeUnit, defaulting to seconds"

\* C25: the time unit of a scene parse_dict returns is seconds, milliseconds
\* or samples: an alias resolves to its unit whatever its letter case and the
\* blanks around it, a missing timeUnit gives seconds, and any other value
\* gives seconds with a diagnostic
C25_TimeUnitCanonical ==
    (input.op = "parse_dict" /\ exc = "") =>
        /\ scene.time_unit \in {"seconds", "milliseconds", "samples"}
        /\ Doc.k = "dict" =>
              IF Doc.timeUnit = Missing
              THEN scene.time_unit = "seconds" /\ ~UnitDiagnostic
              ELSE IF UnitsWritten(Doc.timeUnit) # {}
              THEN UnitsWritten(Doc.timeUnit) = {scene.time_unit} /\ ~UnitDiagnostic
              ELSE scene.time_unit = "seconds" /\ UnitDiagnostic

\* " MS " gave milliseconds and "Samp" gave samples, without diagnostic, and
\* "ticks" gave seconds with the diagnostic
C25_Witness ==
    /\ input.op = "parse_dict" /\ exc = "" /\ Doc.k = "dict"
    /\ \/ /\ Doc.timeUnit = Text(<<" ", "M", "S", " ">>)
          /\ scene.time_unit = "milliseconds" /\ ~UnitDiagnostic
       \/ /\ Doc.timeUnit = Text(<<"S", "a", "m", "p">>)
          /\ scene.time_unit = "samples" /\ ~UnitDiagnostic
       \/ /\ Doc.timeUnit = Text(<<"t", "i", "c", "k", "s">>)
          /\ scene.time_unit = "seconds" /\ UnitDiagnostic

\* the entry is an audio_object with an id that the loader accepts
ObjectEntry(e) ==
    /\ e.k = "dict"
    /\ ~IsNone(e.id) /\ is_valid_node_id(PyStr(e.id))
    /\ IsType(e.type, "audio_object")

\* the cart is a sequence of exactly 3 finite numbers
Cart3(cart) ==
    /\ cart.k = "list"
    /\ Len(cart.items) = 3
    /\ \A i \in 1..3 : cart.items[i].k = "num"

\* the cart is a sequence with fewer or more than 3 elements
WrongLength(cart) == cart.k = "list" /\ Len(cart.items) # 3

CartDiagnostic == \E i \in 1..Len(diags) : diags[i] = "audio_object cart must be [x, y, z]"

\* C26: the loader keeps an audio_object entry only if its cart is a
\* sequence of exactly 3 finite numbers: every audio_object node of a loaded
\* frame carries the 3 values of the cart of an input entry, and an entry
\* whose cart has fewer or more than 3 elements is dropped with a diagnostic
C26_CartExactlyThree ==
    (FromLoader /\ exc = "" /\ OneFrame(Doc)) =>
        /\ \A j \in 1..Len(scene.frames[1].nodes) :
              scene.frames[1].nodes[j].type = "audio_object" =>
                 \E i \in 1..Len(Entries(Doc)) :
                    /\ ObjectEntry(Entries(Doc)[i])
                    /\ PyStr(Entries(Doc)[i].id) = scene.frames[1].nodes[j].id
                    /\ Cart3(Entries(Doc)[i].cart)
                    /\ scene.frames[1].nodes[j].cart = Entries(Doc)[i].cart.items
        /\ (\E i \in 1..Len(Entries(Doc)) :
               ObjectEntry(Entries(Doc)[i]) /\ WrongLength(Entries(Doc)[i].cart))
              => CartDiagnostic

\* the one entry of the frame is an audio_object with a cart of 2 elements:
\* the loaded frame has no node, and the diagnostic was issued
C26_Witness ==
    /\ FromLoader /\ exc = "" /\ OneFrame(Doc)
    /\ Len(Entries(Doc)) = 1
    /\ ObjectEntry(Entries(Doc)[1])
    /\ WrongLength(Entries(Doc)[1].cart)
    /\ Len(Entries(Doc)[1].cart.items) = 2
    /\ scene.frames[1].nodes = <<>>
    /\ CartDiagnostic

\* two non-empty runs of digits with one dot between them
CanonicalId(cs) ==
    LET parts == Split(cs, ".")
    IN /\ Len(parts) = 2
       /\ \A p \in 1..2 :
             /\ parts[p] # <<>>
             /\ \A i \in 1..Len(parts[p]) : parts[p][i] \in Digits

IdDiagnostic == \E i \in 1..Len(diags) : diags[i] = "node id does not match X.Y"

\* C27: every node of a scene parse_dict returns has an id made of two
\* non-negative integers and one dot between them, so its group and its
\* hierarchy are >= 0; an entry whose id has a sign, a negative component or
\* more or fewer than two components is dropped with a diagnostic
C27_NodeIdsCanonical ==
    (input.op = "parse_dict" /\ exc = "") =>
        /\ \A f \in 1..Len(scene.frames) : \A j \in 1..Len(scene.frames[f].nodes) :
              /\ CanonicalId(scene.frames[f].nodes[j].id)
              /\ group(scene.frames[f].nodes[j]) >= 0
              /\ hierarchy(scene.frames[f].nodes[j]) >= 0
        /\ (OneFrame(Doc) /\ \E i \in 1..Len(Entries(Doc)) :
               /\ Entries(Doc)[i].k = "dict" /\ ~IsNone(Entries(Doc)[i].id)
               /\ ~CanonicalId(PyStr(Entries(Doc)[i].id)))
              => IdDiagnostic

\* the one entry of the frame has the id "1.1.1" or "1": it was dropped with
\* the diagnostic
C27_Witness ==
    /\ input.op = "parse_dict" /\ exc = "" /\ OneFrame(Doc)
    /\ Len(Entries(Doc)) = 1 /\ Entries(Doc)[1].k = "dict"
    /\ Entries(Doc)[1].id \in {Text(<<"1", ".", "1", ".", "1">>), Text(<<"1">>)}
    /\ scene.frames[1].nodes = <<>>
    /\ IdDiagnostic

(***************************************************************************)
(* Properties that relate the two Scene Builders, and of the scene as an   *)
(* argument.                                                               *)
(***************************************************************************)
\* the ids of the nodes of the first frame, none without frames
FirstFrameIds(scn) ==
    IF scn.frames = <<>> THEN {}
    ELSE {scn.frames[1].nodes[j].id : j \in 1..Len(scn.frames[1].nodes)}

\* C28: on the same speaker records, object records, global record and
\* audio-activity map, the build step of parse_adm_xml_to_lusid_scene and
\* adm_to_lusid_scene give scenes of the same version, sample rate, frame
\* count, audio-object groups, direct-speaker groups, LFE presence and
\* first-frame node ids
C28_BuildersEquivalent ==
    (input.op = "parse_adm_xml" /\ input.arg.xml.root # Missing /\ XmlExpected # NoScene) =>
        /\ exc = "" /\ scene # NoScene
        /\ scene.version = XmlExpected.version
        /\ scene.sample_rate = XmlExpected.sample_rate
        /\ frame_count(scene) = frame_count(XmlExpected)
        /\ audio_object_groups(scene) = audio_object_groups(XmlExpected)
        /\ direct_speaker_groups(scene) = direct_speaker_groups(XmlExpected)
        /\ has_lfe(scene) = has_lfe(XmlExpected)
        /\ FirstFrameIds(scene) = FirstFrameIds(XmlExpected)

\* a document with four speakers and an object of two blocks, on which
\* adm_to_lusid_scene gives two frames and an LFE node: the single-step
\* pipeline has been called on it
C28_Witness ==
    /\ input.op = "parse_adm_xml" /\ pc # "start"
    /\ input.arg.xml.root # Missing /\ XmlExpected # NoScene
    /\ Len(input.arg.xml.root.speakers) = 4 /\ Len(input.arg.xml.root.objects) = 1
    /\ frame_count(XmlExpected) = 2 /\ has_lfe(XmlExpected)

\* a step that calls transcode_to_sonopleth or extract_metadata_sidecar
CallsOnScene == Len(history') = Len(history) + 1

WellFormed(e) ==
    /\ e.k = "dict"
    /\ ~IsNone(e.id) /\ CanonicalId(PyStr(e.id))
    /\ e.type.k = "str" /\ e.type.s \in NodeTypes
    /\ e.type.s \in {"audio_object", "direct_speaker"} => Cart3(e.cart)

\* the entries i and j of the frame carry the same id
SameId(i, j) ==
    /\ Entries(Doc)[i].k = "dict" /\ ~IsNone(Entries(Doc)[i].id)
    /\ Entries(Doc)[j].k = "dict" /\ ~IsNone(Entries(Doc)[j].id)
    /\ PyStr(Entries(Doc)[i].id) = PyStr(Entries(Doc)[j].id)

\* entry i is the last well-formed occurrence of its id
LastWellFormed(i) ==
    /\ WellFormed(Entries(Doc)[i])
    /\ ~\E j \in (i + 1)..Len(Entries(Doc)) : WellFormed(Entries(Doc)[j]) /\ SameId(i, j)

\* the node loaded from entry i is node n of the loaded frame
LoadedFrom(i, n) ==
    /\ scene.frames[1].nodes[n].id = PyStr(Entries(Doc)[i].id)
    /\ scene.frames[1].nodes[n].type = Entries(Doc)[i].type.s
    /\ scene.frames[1].nodes[n].type = "audio_object" =>
          scene.frames[1].nodes[n].cart = Entries(Doc)[i].cart.items

\* the ids of the last well-formed occurrences, in input order, from entry i on
RECURSIVE SurvivorIds(_)
SurvivorIds(i) ==
    IF i > Len(Entries(Doc)) THEN <<>>
    ELSE IF LastWellFormed(i) THEN <<PyStr(Entries(Doc)[i].id)>> \o SurvivorIds(i + 1)
    ELSE SurvivorIds(i + 1)

LoadedIds == [n \in 1..Len(scene.frames[1].nodes) |-> scene.frames[1].nodes[n].id]

\* C30: in the loader only a well-formed node evicts another: a well-formed
\* entry with id X that a later malformed entry with the same id X follows
\* (and no later well-formed one) remains in the loaded frame, and the nodes
\* of the loaded frame are the last well-formed occurrences of their ids, in
\* their input order
C30_OnlyWellFormedEvicts ==
    (FromLoader /\ exc = "" /\ OneFrame(Doc)) =>
        /\ \A i \in 1..Len(Entries(Doc)) :
              (/\ LastWellFormed(i)
               /\ \E j \in (i + 1)..Len(Entries(Doc)) :
                     ~WellFormed(Entries(Doc)[j]) /\ SameId(i, j))
                 => \E n \in 1..Len(scene.frames[1].nodes) : LoadedFrom(i, n)
        /\ LoadedIds = SurvivorIds(1)

\* the frame lists an audio_object 1.1, an LFE node 2.1 and then an entry 1.1
\* the loader rejects: the loaded frame holds the first two, in that order
C30_Witness ==
    /\ FromLoader /\ exc = "" /\ OneFrame(Doc)
    /\ Len(Entries(Doc)) = 3
    /\ WellFormed(Entries(Doc)[1]) /\ WellFormed(Entries(Doc)[2])
    /\ ~WellFormed(Entries(Doc)[3]) /\ SameId(1, 3) /\ ~SameId(1, 2)
    /\ Len(scene.frames[1].nodes) = 2
    /\ LoadedFrom(1, 1) /\ LoadedFrom(2, 2)

====
